---- MODULE Spec2Model ----
(***************************************************************************)
(* Model of hoa_app.py: the email-template renderer                        *)
(* (parse_email_template), the batch email dispatcher of the Email Center  *)
(* (show_email_center, "Send Emails"), the mail transport (send_email)     *)
(* and the data-access layer it reads (execute_query, get_properties,      *)
(* Add Property), and the handlers of the CRUD tabs that delete a record   *)
(* behind a typed confirmation phrase (Delete Property, Delete Request,    *)
(* Delete Template) and that edit a maintenance request (Edit Request).    *)
(*                                                                         *)
(* Strings.  A Python str is modelled as a sequence of tokens; the str it  *)
(* stands for is the concatenation of its tokens.  The token alphabet is   *)
(* "{{", "}}", the placeholder names (property_address, ...), " " (one     *)
(* blank) and text tokens that hold no brace and are no placeholder name,  *)
(* so a substring match of "{{name}}" in the concatenation is exactly a    *)
(* match of the three tokens "{{", name, "}}" in the sequence.             *)
(* Whitespace at the ends of a str that is stripped occurs only as the     *)
(* " " token.                                                              *)
(*                                                                         *)
(* None.  A value that may be None is a record [isNone, val].              *)
(***************************************************************************)
EXTENDS Integers, Sequences, FiniteSets, TLC

VARIABLES
    \* ---- parse_email_template called on its own (RenderSpec) ----
    template_text,      \* argument template_text
    property_row,       \* argument property_row (None or a row)
    maintenance_data,   \* argument maintenance_data (None or a dict)
    financial_data,     \* argument financial_data (None or a dict)
    parsed,             \* the value returned
    rpc,                \* "input" before the call, "rendered" after it
    \* ---- the relational store ----
    properties,         \* table properties: a set of records
    residents,          \* table residents: a set of records
    next_property_id,   \* the id sequence of properties
    next_resident_id,   \* the id sequence of residents
    \* ---- one user session (the script run of the page in use) ----
    pc,                 \* "idle", "loop", "sending", "done", "crashed"
    properties_data,    \* show_email_center: the list get_properties() returned
    selected_properties,\* the labels chosen in the multiselect, in selection order
    email_subject,      \* the local email_subject: what the Subject input returned
    email_body,         \* the local email_body: what the Email Body input returned
    i,                  \* the loop index of the recipient loop
    sent_count,
    failed_count,
    transport,          \* the send_email calls made by the running handler, in order
    log,                \* what the running handler has shown (st.warning, st.error, ...)
    executed,           \* the SQL statements the running handler has executed, in order
    \* ---- the other tables of the store ----
    maintenance_requests,   \* table maintenance_requests: a set of records
    financial_transactions, \* table financial_transactions: a set of records
    email_templates,        \* table email_templates: a set of records
    next_request_id,        \* the id sequence of maintenance_requests
    next_transaction_id,    \* the id sequence of financial_transactions
    next_template_id,       \* the id sequence of email_templates
    \* ---- the widgets and locals of the CRUD tab in use ----
    widgets,            \* what the tab's widgets hold and what its prompt asks for
    requests_data,      \* show_maintenance: the list get_maintenance_requests() returned
    session_state,      \* st.session_state: the keys email_subject and email_body,
                        \* each None while the key is absent; it outlives a script run
    \* ---- one call of execute_query, step by step ----
    qpc,                \* "idle", "connect", "cursor", "execute", "fetchall", "commit",
                        \* "except", "finally"
    fetch,              \* the parameter fetch of the call
    conn,               \* the local conn: "unbound", "open" or "closed"
    cur,                \* the local cur: "unbound", "open" or "closed"
    transaction,        \* the transaction of conn: "none", "open", "committed", "rolled back"
    connections,        \* how many connections the call has opened
    statements,         \* how many statements the call has sent
    query_result,       \* what the call returns: "pending", "rows", "rowcount", "None"
    open_connections,   \* how many connections of the process are open
    calls               \* how many calls of execute_query were made

rvars == <<template_text, property_row, maintenance_data, financial_data, parsed, rpc>>
store == <<properties, residents, next_property_id, next_resident_id>>
session == <<pc, properties_data, selected_properties, email_subject, email_body, i,
             sent_count, failed_count, transport, log, executed>>
sequences == <<next_request_id, next_transaction_id, next_template_id>>
crud == <<maintenance_requests, financial_transactions, email_templates, sequences, widgets,
          requests_data>>
qvars == <<qpc, fetch, conn, cur, transaction, connections, statements, query_result,
           open_connections, calls>>
vars == <<rvars, store, session, crud, session_state, qvars>>

-----------------------------------------------------------------------------
(* Bounds of the model *)

\* longest template drawn as a concatenation of pieces
MaxPieces == 2
\* most rows of the properties table
MaxProperties == 3
\* most properties selected for one batch
MaxSelected == 3
\* most rows of the maintenance_requests table
MaxRequests == 3
\* most email templates ever created
MaxTemplates == 3
\* most rows of the financial_transactions table
MaxTransactions == 4
\* most calls of execute_query followed step by step
MaxCalls == 4

-----------------------------------------------------------------------------
(* Python values *)

NoneStr == [isNone |-> TRUE, val |-> <<>>]
NoneInt == [isNone |-> TRUE, val |-> 0]
NoneDict == [isNone |-> TRUE, val |-> <<>>]
Some(v) == [isNone |-> FALSE, val |-> v]

\* truth value of an optional str / list / dict: None and the empty one are falsy
Truthy(x) == ~x.isNone /\ x.val # <<>>
\* truth value of an optional number: None and 0 are falsy
TruthyNum(x) == ~x.isNone /\ x.val # 0

\* x or d
OrElse(x, d) == IF Truthy(x) THEN x.val ELSE d
OrElseNum(x, d) == IF TruthyNum(x) THEN x.val ELSE d

\* f"{n}" of an int
fstr(n) == <<ToString(n)>>

\* dict.get(key, default)
get(d, key, default) == IF key \in DOMAIN d THEN d[key] ELSE default

RECURSIVE lstrip(_)
lstrip(s) == IF s # <<>> /\ Head(s) = " " THEN lstrip(Tail(s)) ELSE s

RECURSIVE rstrip(_)
rstrip(s) == IF s # <<>> /\ s[Len(s)] = " " THEN rstrip(SubSeq(s, 1, Len(s) - 1)) ELSE s

\* str.strip()
strip(s) == rstrip(lstrip(s))

\* str.replace(old, new): every non-overlapping occurrence, left to right.
\* from[k] is the result for the part of the string that starts at k; the
\* string is taken as a value (t) before it is scanned.
replace(s, old, new) ==
    LET scan(t) ==
          LET from[k \in 1..(Len(t) + 1)] ==
                IF k + Len(old) - 1 > Len(t) THEN SubSeq(t, k, Len(t))
                ELSE IF SubSeq(t, k, k + Len(old) - 1) = old
                     THEN new \o from[k + Len(old)]
                     ELSE <<t[k]>> \o from[k + 1]
          IN  from[1]
    IN  CHOOSE r \in { scan(t) : t \in {s} } : TRUE

\* the literal "{{name}}"
Placeholder(name) == <<"{{", name, "}}">>

-----------------------------------------------------------------------------
(* parse_email_template, lines 98-138 *)

\* f"{row[1]} {row[2] or ''}".strip()
display_label(row) == strip(row[1] \o <<" ">> \o OrElse(row[2], <<>>))

\* the block with the contact name read from the email column
property_block_wrong_column(text, row) ==
    IF ~Truthy(row) THEN text
    ELSE LET property_address == display_label(row.val)
             resident_name == OrElse(row.val[5], <<"Resident">>)
             monthly_fee == OrElseNum(row.val[3], 0)
             p1 == replace(text, Placeholder("property_address"), property_address)
             p2 == replace(p1, Placeholder("resident_name"), resident_name)
         IN  replace(p2, Placeholder("monthly_fee"), fstr(monthly_fee))

\* the "Property variables" block, lines 106-113
property_block(text, row) ==
    IF ~Truthy(row) THEN text
    ELSE LET property_address == display_label(row.val)
             resident_name == OrElse(row.val[4], <<"Resident">>)
             monthly_fee == OrElseNum(row.val[3], 0)
             p1 == replace(text, Placeholder("property_address"), property_address)
             p2 == replace(p1, Placeholder("resident_name"), resident_name)
         IN  replace(p2, Placeholder("monthly_fee"), fstr(monthly_fee))

\* the block skipped unless the dict holds both keys
financial_block_needs_both(text, fin) ==
    IF ~Truthy(fin) \/ DOMAIN fin.val # {"balance", "due_date"} THEN text
    ELSE LET current_balance == get(fin.val, "balance", fstr(0))
             due_date == get(fin.val, "due_date", <<"TBD">>)
             p1 == replace(text, Placeholder("current_balance"), current_balance)
         IN  replace(p1, Placeholder("due_date"), due_date)

\* the "Financial variables" block, lines 116-120
financial_block(text, fin) ==
    IF ~Truthy(fin) THEN text
    ELSE LET current_balance == get(fin.val, "balance", fstr(0))
             due_date == get(fin.val, "due_date", <<"TBD">>)
             p1 == replace(text, Placeholder("current_balance"), current_balance)
         IN  replace(p1, Placeholder("due_date"), due_date)

\* the "Maintenance variables" block, lines 123-129
maintenance_block(text, maint) ==
    IF ~Truthy(maint) THEN text
    ELSE LET request_title == get(maint.val, "title", <<>>)
             status == get(maint.val, "status", <<>>)
             notes == get(maint.val, "notes", <<>>)
             p1 == replace(text, Placeholder("request_title"), request_title)
             p2 == replace(p1, Placeholder("status"), status)
         IN  replace(p2, Placeholder("notes"), notes)

\* the defaults with the one of due_date taken from line 118
default_block_tbd(text) ==
    LET p1 == replace(text, Placeholder("current_balance"), <<"0.00">>)
        p2 == replace(p1, Placeholder("due_date"), <<"TBD">>)
        p3 == replace(p2, Placeholder("request_title"), <<>>)
        p4 == replace(p3, Placeholder("status"), <<>>)
    IN  replace(p4, Placeholder("notes"), <<>>)

\* the defaults with the braces of {{status}} forgotten
default_block_bare_status(text) ==
    LET p1 == replace(text, Placeholder("current_balance"), <<"0.00">>)
        p2 == replace(p1, Placeholder("due_date"), <<"End of Month">>)
        p3 == replace(p2, Placeholder("request_title"), <<>>)
        p4 == replace(p3, <<"status">>, <<>>)
    IN  replace(p4, Placeholder("notes"), <<>>)

\* "Default replacements for missing data", lines 132-136
default_block(text) ==
    LET p1 == replace(text, Placeholder("current_balance"), <<"0.00">>)
        p2 == replace(p1, Placeholder("due_date"), <<"End of Month">>)
        p3 == replace(p2, Placeholder("request_title"), <<>>)
        p4 == replace(p3, Placeholder("status"), <<>>)
    IN  replace(p4, Placeholder("notes"), <<>>)

\* the property values put in after every other substitution
parse_email_template_property_last(text, row, maint, fin) ==
    IF text = <<>> THEN text
    ELSE property_block(default_block(maintenance_block(financial_block(text, fin), maint)),
                        row)

\* the defaults applied only when no context was given
parse_email_template_defaults_if_no_context(text, row, maint, fin) ==
    IF text = <<>> THEN text
    ELSE LET substituted ==
                 maintenance_block(financial_block(property_block(text, row), fin), maint)
         IN  IF Truthy(fin) \/ Truthy(maint) THEN substituted
             ELSE default_block(substituted)

parse_email_template(text, row, maint, fin) ==
    IF text = <<>> THEN text
    ELSE default_block(maintenance_block(financial_block(property_block(text, row), fin), maint))

-----------------------------------------------------------------------------
(* Inputs of the renderer *)

\* the fixed vocabulary, lines 704-711
Vocabulary ==
    {"property_address", "resident_name", "monthly_fee", "current_balance",
     "due_date", "request_title", "status", "notes"}

\* a row of get_properties: [id, address, unit_number, hoa_fees_monthly,
\* primary_contact, email, None], indexed from 0 as in the source
Row(id, address, unit, fee, contact, email) ==
    (0 :> id @@ 1 :> address @@ 2 :> unit @@ 3 :> fee @@ 4 :> contact
       @@ 5 :> email @@ 6 :> NoneStr)

RenderRows ==
    { Some(Row(1, <<"12 Oak St">>, Some(<<"2B">>), Some(250), Some(<<"Jane Doe">>),
               Some(<<"jane@example.org">>))),
      \* a property with no primary resident and no fee
      Some(Row(2, <<"9 Elm Rd">>, NoneStr, NoneInt, NoneStr, NoneStr)),
      \* contact names that hold placeholder text
      Some(Row(3, <<"9 Elm Rd">>, Some(<<>>), Some(0), Some(Placeholder("due_date")),
               Some(<<"sam@example.org">>))),
      Some(Row(4, <<"12 Oak St">>, Some(<<" ">>), Some(95),
               Some(Placeholder("property_address")), Some(<<>>))),
      Some(Row(5, <<"5 Ash Ct">>, NoneStr, Some(120), Some(Placeholder("current_balance")),
               Some(<<"bob@example.org">>))),
      NoneStr }

Dict2(k1, v1, k2, v2) == (k1 :> v1 @@ k2 :> v2)

FinancialContexts ==
    { NoneDict,
      Some(<<>>),
      Some(Dict2("balance", <<"125.50">>, "due_date", <<"2024-07-01">>)),
      Some("balance" :> <<>>),
      Some("due_date" :> <<>>) }

MaintenanceContexts ==
    { NoneDict,
      Some(<<>>),
      Some("title" :> <<"Leak">> @@ "status" :> <<"Open">> @@ "notes" :> <<"Call first">>),
      Some("title" :> <<>>),
      Some(Dict2("status", <<>>, "notes", <<"Call first">>)) }

\* what a template is put together from: each placeholder of the vocabulary,
\* a placeholder outside it, text, and loose braces and names
Pieces ==
    { Placeholder(n) : n \in Vocabulary }
       \cup { Placeholder("phone"), <<"Hi ">>, <<"{{">>, <<"}}">>, <<"status">> }

RECURSIVE PieceSeqs(_)
PieceSeqs(n) ==
    IF n = 0 THEN { <<>> }
    ELSE LET shorter == PieceSeqs(n - 1)
         IN  shorter \cup { t \o p : t \in shorter, p \in Pieces }

\* "Hi {{resident_name}}, balance {{current_balance}}"
ExampleTemplate ==
    <<"Hi ">> \o Placeholder("resident_name") \o <<", balance ">>
        \o Placeholder("current_balance")

\* every placeholder of the vocabulary once, with text between
FullTemplate ==
    Placeholder("property_address") \o <<"|">> \o Placeholder("resident_name")
        \o <<"|">> \o Placeholder("monthly_fee") \o <<"|">>
        \o Placeholder("current_balance") \o <<"|">> \o Placeholder("due_date")
        \o <<"|">> \o Placeholder("request_title") \o <<"|">> \o Placeholder("status")
        \o <<"|">> \o Placeholder("notes") \o <<"|">> \o Placeholder("notes")

\* "{{{{notes}}status}}": removing the inner placeholder leaves "{{status}}"
NestedTemplate == <<"{{">> \o Placeholder("notes") \o <<"status", "}}">>

\* "{{{{name}}name}}": removing the inner placeholder leaves "{{name}}"
Nested(name) == <<"{{">> \o Placeholder(name) \o <<name, "}}">>

Templates ==
    PieceSeqs(MaxPieces)
       \cup { ExampleTemplate, FullTemplate, NestedTemplate, Nested("due_date"),
              Nested("current_balance") }

-----------------------------------------------------------------------------
(* RenderSpec: parse_email_template applied to drawn inputs *)

StoreIdle ==
    /\ properties = {}
    /\ residents = {}
    /\ next_property_id = 1
    /\ next_resident_id = 1

SessionIdle ==
    /\ pc = "idle"
    /\ properties_data = <<>>
    /\ selected_properties = <<>>
    /\ email_subject = <<>>
    /\ email_body = <<>>
    /\ i = 0
    /\ sent_count = 0
    /\ failed_count = 0
    /\ transport = <<>>
    /\ log = <<>>
    /\ executed = <<>>

\* what the widgets of a CRUD tab hold before the tab is used
NoForm ==
    [op |-> "", id |-> 0, confirm_text |-> <<>>, prompt |-> <<>>, new_status |-> "",
     new_title |-> <<>>, inputs |-> <<>>]

CrudIdle ==
    /\ maintenance_requests = {}
    /\ financial_transactions = {}
    /\ email_templates = {}
    /\ next_request_id = 1
    /\ next_transaction_id = 1
    /\ next_template_id = 1
    /\ widgets = NoForm
    /\ requests_data = <<>>

\* a new session: st.session_state holds no key
NewSession == session_state = [email_subject |-> NoneStr, email_body |-> NoneStr]

\* no call of execute_query was made
QueryIdle ==
    /\ qpc = "idle"
    /\ fetch = TRUE
    /\ conn = "unbound"
    /\ cur = "unbound"
    /\ transaction = "none"
    /\ connections = 0
    /\ statements = 0
    /\ query_result = "pending"
    /\ open_connections = 0
    /\ calls = 0

RenderInit ==
    /\ StoreIdle
    /\ SessionIdle
    /\ CrudIdle
    /\ NewSession
    /\ QueryIdle
    /\ template_text \in Templates
    /\ property_row = NoneStr
    /\ maintenance_data = NoneDict
    /\ financial_data = NoneDict
    /\ parsed = <<>>
    /\ rpc = "input"

Render ==
    /\ rpc = "input"
    /\ \E row \in RenderRows, maint \in MaintenanceContexts, fin \in FinancialContexts :
          /\ property_row' = row
          /\ maintenance_data' = maint
          /\ financial_data' = fin
          /\ parsed' = parse_email_template(template_text, row, maint, fin)
    /\ rpc' = "rendered"
    /\ UNCHANGED <<template_text, store, session, crud, session_state, qvars>>

RenderNext == Render

RenderSpec == RenderInit /\ [][RenderNext]_vars

-----------------------------------------------------------------------------
(* What a handler shows and what the external collaborators answer *)

\* one st.warning / st.error / st.success / st.info / progress call
Ev(kind, text, n) == [kind |-> kind, text |-> text, n |-> n]

\* the data store either executes a statement or fails (no connection, or
\* the statement is rejected)
DbOutcomes == {"ok", "error"}
\* the SMTP relay either accepts the message or some step of the
\* conversation raises
SmtpOutcomes == {"ok", "error"}

-----------------------------------------------------------------------------
(* execute_query, lines 24-51 *)

\* execute_query with the except clause letting the error through as well
execute_query_raises(outcome, rows) ==
    IF outcome = "ok"
    THEN [raised |-> FALSE, returned |-> Some(rows), shown |-> <<>>, committed |-> TRUE]
    ELSE [raised |-> TRUE, returned |-> NoneStr,
          shown |-> <<Ev("error", <<"Database error">>, 0)>>, committed |-> FALSE]

\* execute_query with conn.commit() left out
execute_query_no_commit(outcome, rows) ==
    IF outcome = "ok"
    THEN [raised |-> FALSE, returned |-> Some(rows), shown |-> <<>>, committed |-> FALSE]
    ELSE [raised |-> FALSE, returned |-> NoneStr,
          shown |-> <<Ev("error", <<"Database error">>, 0)>>, committed |-> FALSE]

\* Every exception is caught (line 44): the error is shown and None is
\* returned; nothing is raised to the caller.  rows is what the statement
\* yields when the store executes it (the rows fetched, or the row count
\* with fetch=False).  The statement is committed (lines 38, 41) when the
\* store has executed it, and has no effect when it failed.
execute_query(outcome, rows) ==
    IF outcome = "ok"
    THEN [raised |-> FALSE, returned |-> Some(rows), shown |-> <<>>, committed |-> TRUE]
    ELSE [raised |-> FALSE, returned |-> NoneStr,
          shown |-> <<Ev("error", <<"Database error">>, 0)>>, committed |-> FALSE]

-----------------------------------------------------------------------------
(* get_properties, lines 53-68 *)

\* the order of the strings the store sorts (addresses and unit numbers)
Collation == << <<>>, <<"12 Oak St">>, <<"2B">>, <<"5 Ash Ct">>, <<"9 Elm Rd">> >>
Rank(str) == CHOOSE k \in 1..Len(Collation) : Collation[k] = str
\* ORDER BY ... ASC puts NULL last
RankNullsLast(x) == IF x.isNone THEN Len(Collation) + 1 ELSE Rank(x.val)

PrimaryResidents(p) ==
    { r \in residents : r.property_id = p.id /\ r.is_primary_contact }

\* one row of the SELECT: p.id, p.address, p.unit_number, p.hoa_fees_monthly,
\* r.first_name || ' ' || r.last_name, r.email
JoinedRow(p, r) ==
    (0 :> p.id @@ 1 :> p.address @@ 2 :> p.unit_number @@ 3 :> p.hoa_fees_monthly
       @@ 4 :> Some(r.first_name \o <<" ">> \o r.last_name) @@ 5 :> r.email)
\* LEFT JOIN: a property with no primary resident yields NULL contact fields
UnjoinedRow(p) ==
    (0 :> p.id @@ 1 :> p.address @@ 2 :> p.unit_number @@ 3 :> p.hoa_fees_monthly
       @@ 4 :> NoneStr @@ 5 :> NoneStr)

\* the SELECT with JOIN in the place of LEFT JOIN
SelectedRows_inner_join ==
    UNION { { [row |-> JoinedRow(p, r), resident |-> r.id] : r \in PrimaryResidents(p) } :
              p \in properties }

\* The rows the SELECT yields, one for each pair of a property and a primary
\* resident of it and one for each property with none.  Each is kept with
\* the id of the resident it comes from (0: from none), so that two
\* residents with one name and one email yield two rows.
SelectedRows ==
    (UNION { { [row |-> JoinedRow(p, r), resident |-> r.id] : r \in PrimaryResidents(p) } :
               p \in properties })
        \cup { [row |-> UnjoinedRow(p), resident |-> 0] :
                 p \in { q \in properties : PrimaryResidents(q) = {} } }

\* ORDER BY p.address, p.unit_number
InOrder(r1, r2) ==
    \/ Rank(r1[1]) < Rank(r2[1])
    \/ Rank(r1[1]) = Rank(r2[1]) /\ RankNullsLast(r1[2]) <= RankNullsLast(r2[2])

\* every list the SELECT may return: the rows, each once for the pair it
\* comes from, sorted; rows with equal keys come in any order
QueryResults ==
    LET n == Cardinality(SelectedRows)
    IN  { [k \in 1..n |-> f[k].row] :
            f \in { g \in [1..n -> SelectedRows] :
                      /\ \A a, b \in 1..n : a # b => g[a] # g[b]
                      /\ \A a, b \in 1..n : a < b => InOrder(g[a].row, g[b].row) } }

\* lines 63-68: [list(row) + [None] for row in result], or [] when the query
\* failed or found nothing
get_properties(result) ==
    IF Truthy(result.returned)
    THEN [k \in 1..Len(result.returned.val) |-> result.returned.val[k] @@ (6 :> NoneStr)]
    ELSE <<>>

-----------------------------------------------------------------------------
(* get_maintenance_requests, lines 70-84, and the template list of the      *)
(* Delete Template tab, lines 808-809                                       *)

\* every list that holds each of the rows once
Lists(rows) ==
    LET n == Cardinality(rows)
    IN  { f \in [1..n -> rows] : \A a, b \in 1..n : a # b => f[a] # f[b] }

\* one row of the SELECT of lines 72-74: mr.id, p.address, p.unit_number,
\* mr.request_type, mr.title, mr.status, mr.priority, mr.created_date,
\* mr.estimated_cost.  The columns at 3, 6 and 8 (request_type, priority,
\* estimated_cost) are read by no handler modelled here and are left out.
RequestRow(mr, p) ==
    (0 :> mr.id @@ 1 :> p.address @@ 2 :> p.unit_number @@ 4 :> mr.title
       @@ 5 :> mr.status @@ 7 :> mr.created_date)

\* JOIN properties p ON mr.property_id = p.id
RequestRows ==
    UNION { { RequestRow(mr, p) : p \in { q \in properties : q.id = mr.property_id } } :
            mr \in maintenance_requests }

\* ORDER BY mr.created_date DESC
NewestFirst(r1, r2) == r1[7] >= r2[7]

\* every list the SELECT may return: rows of one date come in any order
RequestResults ==
    { f \in Lists(RequestRows) : \A a, b \in 1..Len(f) : a < b => NewestFirst(f[a], f[b]) }

\* the reader filling position 9 with the expected completion date stored
get_maintenance_requests_with_expected(result) ==
    IF Truthy(result.returned)
    THEN [k \in 1..Len(result.returned.val) |->
            result.returned.val[k]
              @@ (9 :> (CHOOSE mr \in maintenance_requests :
                           mr.id = result.returned.val[k][0]).expected_completion)]
    ELSE <<>>

\* lines 80-84: [list(row) + [None] for row in result], or [] when the query
\* failed or found nothing
get_maintenance_requests(result) ==
    IF Truthy(result.returned)
    THEN [k \in 1..Len(result.returned.val) |-> result.returned.val[k] @@ (9 :> NoneStr)]
    ELSE <<>>

\* SELECT id, template_name, template_type, is_active, created_date
\* FROM email_templates (created_date, column 4, is read by no handler)
TemplateRow(t) ==
    (0 :> t.id @@ 1 :> t.template_name @@ 2 :> t.template_type @@ 3 :> t.is_active)

\* the order of the template names the store sorts
NameCollation == << <<"Monthly">>, <<"Notice">> >>
NameRank(str) == CHOOSE k \in 1..Len(NameCollation) : NameCollation[k] = str
\* ORDER BY template_name
ByName(r1, r2) == NameRank(r1[1]) <= NameRank(r2[1])

TemplateResults ==
    { f \in Lists({ TemplateRow(t) : t \in email_templates }) :
        \A a, b \in 1..Len(f) : a < b => ByName(f[a], f[b]) }

\* every list that holds each of the rows once, ORDER BY template_name (the
\* name is column 1 of every SELECT on email_templates)
SortedByName(rows) ==
    { f \in Lists(rows) : \A a, b \in 1..Len(f) : a < b => ByName(f[a], f[b]) }

-----------------------------------------------------------------------------
(* send_email, lines 141-160 *)

\* send_email with the except clause letting the error through as well
send_email_raises(outcome) ==
    IF outcome = "ok"
    THEN [raised |-> FALSE, returned |-> TRUE, shown |-> <<>>]
    ELSE [raised |-> TRUE, returned |-> FALSE,
          shown |-> <<Ev("error", <<"Email error">>, 0)>>]

\* Every exception of the SMTP conversation is caught (line 158): the error
\* is shown and False is returned; nothing is raised to the caller.
send_email(outcome) ==
    IF outcome = "ok"
    THEN [raised |-> FALSE, returned |-> TRUE, shown |-> <<>>]
    ELSE [raised |-> FALSE, returned |-> FALSE,
          shown |-> <<Ev("error", <<"Email error">>, 0)>>]

-----------------------------------------------------------------------------
(* show_email_center, tab "Send Emails", lines 583-643 *)

\* line 585: the options of the multiselect
property_options(data) == [k \in 1..Len(data) |-> display_label(data[k])]

\* st.session_state.get(key, default)
session_get(state, key, default) ==
    IF state[key].isNone THEN default ELSE state[key].val

\* lines 588-592: what the Subject and Email Body inputs return: left
\* untouched, their values, which are those of st.session_state and the
\* defaults where it has none; or a pair typed in, which uses placeholders
EmailForms(state) ==
    { [subject |-> session_get(state, "email_subject", <<"Monthly HOA Statement">>),
       body |-> session_get(state, "email_body",
                            <<"Dear Resident,\n\nPlease find your monthly HOA statement.\n\nBest regards,\nHOA Management">>)],
      [subject |-> <<"Statement for ">> \o Placeholder("property_address"),
       body |-> ExampleTemplate] }

\* what the multiselect can hold: options picked one after another, each
\* option at most once, at most MaxSelected of them
RECURSIVE Picks(_, _)
Picks(n, len) ==
    IF len = 0 THEN { <<>> }
    ELSE LET shorter == Picks(n, len - 1)
         IN  shorter \cup { Append(t, k) : t \in { u \in shorter : Len(u) = len - 1 },
                                           k \in 1..n }
Selections(data) ==
    LET n == Len(data)
        m == IF n < MaxSelected THEN n ELSE MaxSelected
        picks == { t \in Picks(n, m) : \A a, b \in 1..Len(t) : a # b => t[a] # t[b] }
    IN  { [k \in 1..Len(t) |-> property_options(data)[t[k]]] : t \in picks }

\* the loop running over the selection from its end
recipient_at_reversed(selected, idx) == selected[Len(selected) - idx]

\* line 605: for i, prop_display in enumerate(selected_properties)
recipient_at(selected, idx) == selected[idx + 1]

\* the search going on to the last row whose label is prop_display
find_row_last(data, prop_display) ==
    LET hits == { k \in 1..Len(data) : display_label(data[k]) = prop_display }
    IN  IF hits = {} THEN 0 ELSE CHOOSE k \in hits : \A h \in hits : h <= k

\* lines 609-612 and 628: the first row whose label is prop_display (0: none)
find_row(data, prop_display) ==
    LET hits == { k \in 1..Len(data) : display_label(data[k]) = prop_display }
    IN  IF hits = {} THEN 0 ELSE CHOOSE k \in hits : \A h \in hits : k <= h

\* line 614: row[5] if len(row) > 5 and row[5] else None
email_address_of(row) == IF Truthy(row[5]) THEN row[5] ELSE NoneStr

\* the test of line 616 without .strip()
has_email_unstripped(email_address) == Truthy(email_address)

\* line 616: email_address and email_address.strip()
has_email(email_address) == Truthy(email_address) /\ strip(email_address.val) # <<>>

\* the tally with the failure branch forgotten
tally_drops_failure(ok, sent, failed) ==
    IF ok THEN [sent |-> sent + 1, failed |-> failed]
    ELSE [sent |-> sent, failed |-> failed]

\* lines 621-627: the tally after one recipient; ok is what send_email
\* returned, or FALSE for a recipient with no email
tally(ok, sent, failed) ==
    IF ok THEN [sent |-> sent + 1, failed |-> failed]
    ELSE [sent |-> sent, failed |-> failed + 1]

\* the summary with the second test chained to the first by elif
summary_elif(sent, failed) ==
    IF sent > 0 THEN <<Ev("success", <<"Successfully sent emails">>, sent)>>
    ELSE IF failed > 0 THEN <<Ev("error", <<"Failed to send emails">>, failed)>>
    ELSE <<Ev("info", <<"No emails were processed.">>, 0)>>

\* lines 637-643
summary(sent, failed) ==
    (IF sent > 0 THEN <<Ev("success", <<"Successfully sent emails">>, sent)>> ELSE <<>>)
    \o (IF failed > 0 THEN <<Ev("error", <<"Failed to send emails">>, failed)>> ELSE <<>>)
    \o (IF sent = 0 /\ failed = 0
        THEN <<Ev("info", <<"No emails were processed.">>, 0)>> ELSE <<>>)

\* a handler starts only when no other one is running
Ready == pc = "idle"

\* "Send Emails" is pressed (lines 583-603): the page is run again, which
\* reads the properties, and the handler starts on the selection
SendEmailsClick ==
    /\ Ready
    /\ \E outcome \in DbOutcomes, rows \in QueryResults,
          form \in EmailForms(session_state) :
         LET result == execute_query(outcome, rows)
             data == get_properties(result)
         IN  \E selected \in Selections(data) :
               /\ properties_data' = data
               /\ selected_properties' = selected
               /\ email_subject' = form.subject
               /\ email_body' = form.body
               /\ executed' = <<[query |-> "SELECT properties", outcome |-> outcome]>>
               /\ IF result.raised
                  THEN /\ log' = result.shown
                       /\ pc' = "crashed"
                  ELSE IF data = <<>>
                  THEN /\ log' = result.shown
                       /\ pc' = "idle"
                  ELSE IF selected = <<>>
                  THEN /\ log' = <<Ev("warning", <<"Please select at least one property">>, 0)>>
                       /\ pc' = "idle"
                  ELSE /\ log' = <<>>
                       /\ pc' = "loop"
    /\ i' = 0
    /\ sent_count' = 0
    /\ failed_count' = 0
    /\ transport' = <<>>
    /\ UNCHANGED <<crud, rvars, qvars, session_state, store>>

\* line 631
Progress(idx) == Ev("progress", <<>>, idx + 1)

\* one pass of the loop body up to the send_email call (lines 605-621), or
\* the whole pass for a recipient with no email (lines 625-631).  The locals
\* (prop_display, the index k of the matching row, email_address,
\* parsed_subject, parsed_body) are bound to their values as the code
\* computes them.
ProcessRecipient ==
    /\ pc = "loop"
    /\ i < Len(selected_properties)
    /\ \E prop_display \in {recipient_at(selected_properties, i)} :
       \E k \in {find_row(properties_data, prop_display)} :
         IF k = 0
         THEN /\ log' = log \o <<Ev("status", prop_display, i), Progress(i)>>
              /\ i' = i + 1
              /\ UNCHANGED <<pc, transport, sent_count, failed_count>>
         ELSE \E email_address \in {email_address_of(properties_data[k])} :
                IF has_email(email_address)
                THEN /\ \E parsed_subject \in
                             {parse_email_template(email_subject, Some(properties_data[k]),
                                                   NoneDict, NoneDict)},
                           parsed_body \in
                             {parse_email_template(email_body, Some(properties_data[k]),
                                                   NoneDict, NoneDict)} :
                           transport' = Append(transport,
                               [i |-> i, to |-> email_address.val,
                                subject |-> parsed_subject, body |-> parsed_body,
                                result |-> "pending"])
                     /\ log' = Append(log, Ev("status", prop_display, i))
                     /\ pc' = "sending"
                     /\ UNCHANGED <<i, sent_count, failed_count>>
                ELSE \E t \in {tally(FALSE, sent_count, failed_count)} :
                       /\ log' = log \o <<Ev("status", prop_display, i),
                                          Ev("warning", prop_display, i), Progress(i)>>
                       /\ sent_count' = t.sent
                       /\ failed_count' = t.failed
                       /\ i' = i + 1
                       /\ UNCHANGED <<pc, transport>>
    /\ UNCHANGED <<crud, rvars, qvars, session_state, store, properties_data,
                   selected_properties, email_subject, email_body, executed>>

\* send_email returns (lines 621-624, 631)
SendReturn ==
    /\ pc = "sending"
    /\ \E outcome \in SmtpOutcomes :
         LET r == send_email(outcome)
             t == tally(r.returned, sent_count, failed_count)
             n == Len(transport)
         IN  /\ transport' = [transport EXCEPT ![n].result = outcome]
             /\ IF r.raised
                THEN /\ pc' = "crashed"
                     /\ log' = log
                     /\ UNCHANGED <<i, sent_count, failed_count>>
                ELSE /\ pc' = "loop"
                     /\ log' = log \o r.shown \o <<Progress(i)>>
                     /\ sent_count' = t.sent
                     /\ failed_count' = t.failed
                     /\ i' = i + 1
    /\ UNCHANGED <<crud, rvars, qvars, session_state, store, properties_data,
                   selected_properties, email_subject, email_body, executed>>

\* the loop is over (lines 633-643)
Summary ==
    /\ pc = "loop"
    /\ i = Len(selected_properties)
    /\ log' = log \o summary(sent_count, failed_count)
    /\ pc' = "done"
    /\ UNCHANGED <<crud, rvars, qvars, session_state, store, properties_data,
                   selected_properties, email_subject, email_body, i, sent_count,
                   failed_count, transport, executed>>

\* The script run of the batch has ended (at its last line, or at an
\* exception no handler caught): the page waits for the next interaction,
\* and the next run starts with none of the locals of this one;
\* st.session_state stays as it is.
Rerun ==
    /\ pc \in {"done", "crashed"}
    /\ pc' = "idle"
    /\ properties_data' = <<>>
    /\ selected_properties' = <<>>
    /\ email_subject' = <<>>
    /\ email_body' = <<>>
    /\ i' = 0
    /\ sent_count' = 0
    /\ failed_count' = 0
    /\ transport' = <<>>
    /\ log' = <<>>
    /\ executed' = <<>>
    /\ UNCHANGED <<crud, rvars, qvars, session_state, store>>

-----------------------------------------------------------------------------
(* show_properties, tab "Add Property", lines 256-297 *)

\* what is typed into the form
AddForms ==
    { [address |-> <<"12 Oak St">>, unit_number |-> <<"2B">>, hoa_fee |-> 250,
       first_name |-> <<"Jane">>, last_name |-> <<"Doe">>, email |-> <<"jane@example.org">>],
      [address |-> <<"9 Elm Rd">>, unit_number |-> <<>>, hoa_fee |-> 0,
       first_name |-> <<"Sam">>, last_name |-> <<"Lee">>, email |-> <<>>],
      [address |-> <<"9 Elm Rd">>, unit_number |-> <<>>, hoa_fee |-> 95,
       first_name |-> <<"Ann">>, last_name |-> <<"Ray">>, email |-> <<" ">>],
      \* an address and unit that a property of the store has already
      [address |-> <<"9 Elm Rd">>, unit_number |-> <<>>, hoa_fee |-> 95,
       first_name |-> <<"Ann">>, last_name |-> <<"Ray">>, email |-> <<"ann@example.org">>],
      [address |-> <<"5 Ash Ct">>, unit_number |-> <<>>, hoa_fee |-> 120,
       first_name |-> <<"Bob">>, last_name |-> <<"Fox">>, email |-> <<"bob@example.org">>],
      [address |-> <<"5 Ash Ct">>, unit_number |-> <<>>, hoa_fee |-> 120,
       first_name |-> <<>>, last_name |-> <<"Fox">>, email |-> <<"bob@example.org">>] }

Stmt(query, outcome) == [query |-> query, outcome |-> outcome]

\* the success message shown only when the resident INSERT has inserted a row
add_property_success_checked(resident_result) ==
    IF TruthyNum(resident_result)
    THEN <<Ev("success", <<"Property added successfully!">>, 0)>>
    ELSE <<>>

\* lines 295-296: what execute_query returns for the resident INSERT is not
\* bound to a name; st.success follows it whatever it was
add_property_success(resident_result) ==
    <<Ev("success", <<"Property added successfully!">>, 0)>>

\* "Add Property" is submitted.  o1 is the store's answer to the INSERT of
\* line 281, o1b its answer to the INSERT of the except branch (line 287), o2
\* its answer to the INSERT of the resident (line 295).
AddProperty ==
    /\ Ready
    /\ Cardinality(properties) < MaxProperties
    /\ \E form \in AddForms, o1, o1b, o2 \in DbOutcomes :
         LET new_property == [id |-> next_property_id, address |-> form.address,
                              unit_number |-> Some(form.unit_number),
                              hoa_fees_monthly |-> Some(form.hoa_fee)]
             new_resident == [id |-> next_resident_id, property_id |-> next_property_id,
                              first_name |-> form.first_name, last_name |-> form.last_name,
                              email |-> Some(form.email), is_primary_contact |-> TRUE]
             returning == << <<next_property_id>> >>
             r1 == execute_query(o1, returning)
             r1b == execute_query(o1b, returning)
             \* line 274
             valid == form.address # <<>> /\ form.first_name # <<>> /\ form.last_name # <<>>
             \* lines 276-287
             again == r1.raised
             crashed == again /\ r1b.raised
             result == IF again THEN r1b.returned ELSE r1.returned
             tried == <<Stmt("INSERT properties", o1)>>
                         \o (IF again THEN <<Stmt("INSERT properties", o1b)>> ELSE <<>>)
             inserted == r1.committed \/ (again /\ r1b.committed)
             \* lines 289-297
             r2 == execute_query(o2, 1)
         IN  IF ~valid
             THEN /\ executed' = <<>>
                  /\ log' = <<>>
                  /\ pc' = "idle"
                  /\ UNCHANGED store
             ELSE /\ properties' = IF inserted THEN properties \cup {new_property}
                                   ELSE properties
                  /\ next_property_id' = IF inserted THEN next_property_id + 1
                                         ELSE next_property_id
                  /\ IF crashed
                     THEN /\ executed' = tried
                          /\ log' = r1.shown \o r1b.shown
                          /\ pc' = "crashed"
                          /\ UNCHANGED <<residents, next_resident_id>>
                     ELSE IF Truthy(result)
                     THEN /\ executed' = Append(tried, Stmt("INSERT residents", o2))
                          /\ residents' = IF r2.committed THEN residents \cup {new_resident}
                                          ELSE residents
                          /\ next_resident_id' = IF r2.committed THEN next_resident_id + 1
                                                 ELSE next_resident_id
                          /\ log' = r1.shown \o (IF again THEN r1b.shown ELSE <<>>)
                                      \o r2.shown
                                      \o add_property_success(r2.returned)
                          /\ pc' = "idle"
                     ELSE /\ executed' = tried
                          /\ log' = r1.shown \o (IF again THEN r1b.shown ELSE <<>>)
                          /\ pc' = "idle"
                          /\ UNCHANGED <<residents, next_resident_id>>
    /\ UNCHANGED <<crud, rvars, qvars, session_state, properties_data, selected_properties,
                   email_subject, email_body, i, sent_count, failed_count, transport>>

-----------------------------------------------------------------------------
(* The typed confirmation of the delete tabs.  A phrase and what is typed   *)
(* are written with one token per word and per blank, so that two token     *)
(* sequences are equal exactly when the strings are.                        *)

\* f"DELETE PROPERTY {property_id}", lines 379 and 382
property_confirm_phrase(property_id) == <<"DELETE", " ", "PROPERTY", " ">> \o fstr(property_id)
\* f"DELETE {request_id}", lines 515 and 518
request_confirm_phrase(request_id) == <<"DELETE", " ">> \o fstr(request_id)
\* f"DELETE TEMPLATE {details[0]}", lines 849 and 857
template_confirm_phrase(template_id) == <<"DELETE", " ", "TEMPLATE", " ">> \o fstr(template_id)

\* the button enabled for what is typed with blanks around it
delete_property_disabled_stripped(confirm_text, property_id) ==
    strip(confirm_text) # property_confirm_phrase(property_id)

\* line 382: disabled=(confirm_text != f"DELETE PROPERTY {property_id}")
delete_property_disabled(confirm_text, property_id) ==
    confirm_text # property_confirm_phrase(property_id)
\* line 518
delete_request_disabled(confirm_text, request_id) ==
    confirm_text # request_confirm_phrase(request_id)
\* line 857
delete_template_disabled(confirm_text, template_id) ==
    confirm_text # template_confirm_phrase(template_id)

\* st.button: True in the run that follows a click; a disabled button
\* cannot be clicked
button(clicked, disabled) == clicked /\ ~disabled
\* the clicks a button can get
Clicks(disabled) == IF disabled THEN {FALSE} ELSE BOOLEAN
\* the answers of the store to a statement: none to draw when the statement
\* is not executed
Answers(executes) == IF executes THEN DbOutcomes ELSE {"ok"}

\* a dict built as {label of row: row[0] for row in data}, labels[k] being
\* the label of data[k]: its keys, and the value under a key (a later row
\* with the same label replaces an earlier one)
keys(labels) == { labels[k] : k \in 1..Len(labels) }
value_at(data, labels, key) ==
    LET hits == { k \in 1..Len(labels) : labels[k] = key }
    IN  data[CHOOSE k \in hits : \A h \in hits : h <= k][0]

\* what is typed into the confirmation input: nothing, the phrase, the
\* phrase in lower case, the phrase followed by a blank, the phrase of
\* another id, and a phrase that names another entity
LowerCase(s) ==
    [k \in 1..Len(s) |->
        CASE s[k] = "DELETE" -> "delete"
          [] s[k] = "PROPERTY" -> "property"
          [] s[k] = "TEMPLATE" -> "template"
          [] OTHER -> s[k]]
ConfirmTexts(phrase, id, ids) ==
    { <<>>, phrase, LowerCase(phrase), phrase \o <<" ">>,
      <<"DELETE", " ", "REQUEST", " ">> \o fstr(id) }
       \cup { SubSeq(phrase, 1, Len(phrase) - 1) \o fstr(other) : other \in ids \ {id} }

\* the widgets of a tab
Widgets(op, id, confirm_text, prompt) ==
    [op |-> op, id |-> id, confirm_text |-> confirm_text, prompt |-> prompt,
     new_status |-> "", new_title |-> <<>>, inputs |-> <<>>]

-----------------------------------------------------------------------------
(* show_properties, tab "Edit Property", lines 299-366 *)

\* one row of the detail SELECT, lines 309-317: column 0 is p.id, 1 p.address,
\* 2 p.unit_number, 7 p.hoa_fees_monthly, 8 r.id, 9 r.first_name,
\* 10 r.last_name, 11 r.email (the other columns are side, type, sizes,
\* phone, is_owner and move_in_date, which the model of the store leaves out)
PropertyDetailRow(p, r) ==
    (0 :> p.id @@ 1 :> p.address @@ 2 :> p.unit_number @@ 7 :> p.hoa_fees_monthly
       @@ 8 :> Some(r.id) @@ 9 :> Some(r.first_name) @@ 10 :> Some(r.last_name)
       @@ 11 :> r.email)
\* LEFT JOIN: NULL in the columns of r for a property with no primary resident
PropertyDetailRowUnjoined(p) ==
    (0 :> p.id @@ 1 :> p.address @@ 2 :> p.unit_number @@ 7 :> p.hoa_fees_monthly
       @@ 8 :> NoneInt @@ 9 :> NoneStr @@ 10 :> NoneStr @@ 11 :> NoneStr)

PropertyDetailRows(property_id) ==
    UNION { IF PrimaryResidents(p) = {} THEN { PropertyDetailRowUnjoined(p) }
            ELSE { PropertyDetailRow(p, r) : r \in PrimaryResidents(p) } :
            p \in { q \in properties : q.id = property_id } }

\* lines 328-339: what the inputs of the form hold when nothing is typed
edit_property_defaults(details) ==
    [new_address |-> details[1],
     new_unit |-> OrElse(details[2], <<>>),
     new_hoa_fee |-> OrElseNum(details[7], 0),
     new_first_name |-> OrElse(details[9], <<>>),
     new_last_name |-> OrElse(details[10], <<>>),
     new_email |-> OrElse(details[11], <<>>)]

\* what the form holds when it is submitted: the defaults, a contact typed
\* in, and a contact typed in with another address and fee
EditForms(details) ==
    LET defaults == edit_property_defaults(details)
        contact == [defaults EXCEPT !.new_first_name = <<"Ann">>, !.new_last_name = <<"Ray">>,
                                    !.new_email = <<"ann@example.org">>]
    IN  { defaults, contact,
          [contact EXCEPT !.new_address = <<"5 Ash Ct">>, !.new_hoa_fee = 120] }

\* the UPDATE of lines 344-349
update_property(property_id, form) ==
    { IF p.id = property_id
      THEN [p EXCEPT !.address = form.new_address, !.unit_number = Some(form.new_unit),
                     !.hoa_fees_monthly = Some(form.new_hoa_fee)]
      ELSE p : p \in properties }

\* the UPDATE of lines 354-358
update_resident(resident_id, form) ==
    { IF r.id = resident_id
      THEN [r EXCEPT !.first_name = form.new_first_name, !.last_name = form.new_last_name,
                     !.email = Some(form.new_email)]
      ELSE r : r \in residents }

\* the contact of the form inserted as primary resident when there is none
edit_resident_or_insert(property_id, details, form, committed) ==
    IF ~committed THEN residents
    ELSE IF TruthyNum(details[8]) THEN update_resident(details[8].val, form)
    ELSE residents \cup
           { [id |-> next_resident_id, property_id |-> property_id,
              first_name |-> form.new_first_name, last_name |-> form.new_last_name,
              email |-> Some(form.new_email), is_primary_contact |-> TRUE] }

\* lines 353-360: residents after the run; there is a statement on residents
\* only under `if details[8]`.  committed: the store has executed it.
edit_resident(property_id, details, form, committed) ==
    IF TruthyNum(details[8]) /\ committed THEN update_resident(details[8].val, form)
    ELSE residents

\* The tab is run.  o_sel is the store's answer to the SELECT of
\* get_properties, o_det its answer to the SELECT of the details, o_prop its
\* answer to the UPDATE of properties, o_res its answer to the UPDATE of
\* residents.
EditProperty ==
    /\ Ready
    /\ \E o_sel \in DbOutcomes, rows \in QueryResults :
         LET listed == execute_query(o_sel, rows)
             data == get_properties(listed)
             select == <<Stmt("SELECT properties", o_sel)>>
         IN  /\ properties_data' = data
             /\ IF listed.raised \/ data = <<>>
                THEN /\ widgets' = Widgets("Edit Property", 0, <<>>, <<>>)
                     /\ executed' = select
                     /\ log' = listed.shown
                                \o (IF listed.raised THEN <<>>
                                    ELSE <<Ev("info", <<"No properties found.">>, 0)>>)
                     /\ pc' = IF listed.raised THEN "crashed" ELSE "idle"
                     /\ UNCHANGED <<properties, residents>>
                ELSE \E selected_property \in keys(property_options(data)),
                        o_det \in DbOutcomes :
                     \E property_id \in {value_at(data, property_options(data),
                                                  selected_property)} :
                     \E found \in Lists(PropertyDetailRows(property_id)) :
                     \E property_details \in {execute_query(o_det, found)} :
                       IF ~Truthy(property_details.returned)
                       THEN /\ widgets' = Widgets("Edit Property", property_id, <<>>, <<>>)
                            /\ executed' = Append(select, Stmt("SELECT properties by id", o_det))
                            /\ log' = property_details.shown
                            /\ pc' = IF property_details.raised THEN "crashed" ELSE "idle"
                            /\ UNCHANGED <<properties, residents>>
                       ELSE \E details \in {property_details.returned.val[1]} :
                            \E form \in EditForms(details), clicked \in BOOLEAN :
                            \E submitted \in {clicked /\ form.new_address # <<>>
                                                 /\ form.new_first_name # <<>>
                                                 /\ form.new_last_name # <<>>} :
                            \E o_prop \in Answers(submitted) :
                            \E o_res \in Answers(submitted /\ TruthyNum(details[8])) :
                              LET result1 == execute_query(o_prop, 1)
                                  result2 == execute_query(o_res, 1)
                                  resident == submitted /\ TruthyNum(details[8])
                              IN  /\ widgets' = [Widgets("Edit Property", property_id, <<>>, <<>>)
                                                   EXCEPT !.inputs = form]
                                  /\ properties' =
                                        IF submitted /\ result1.committed
                                        THEN update_property(property_id, form)
                                        ELSE properties
                                  /\ residents' =
                                        IF submitted
                                        THEN edit_resident(property_id, details, form,
                                                           result2.committed)
                                        ELSE residents
                                  /\ executed' =
                                        Append(select, Stmt("SELECT properties by id", o_det))
                                          \o (IF submitted
                                              THEN <<Stmt("UPDATE properties", o_prop)>>
                                              ELSE <<>>)
                                          \o (IF resident
                                              THEN <<Stmt("UPDATE residents", o_res)>>
                                              ELSE <<>>)
                                  /\ log' =
                                        IF ~submitted THEN <<>>
                                        ELSE result1.shown
                                               \o (IF resident THEN result2.shown ELSE <<>>)
                                               \o (IF TruthyNum(result1.returned)
                                                   THEN <<Ev("success",
                                                             <<"Property updated successfully!">>,
                                                             0)>>
                                                   ELSE <<>>)
                                  /\ pc' = IF submitted /\ (result1.raised
                                                             \/ (resident /\ result2.raised))
                                           THEN "crashed" ELSE "idle"
    /\ requests_data' = <<>>
    /\ UNCHANGED <<rvars, qvars, session_state, next_property_id, next_resident_id,
                   selected_properties, email_subject, email_body, i, sent_count,
                   failed_count, transport, maintenance_requests, financial_transactions,
                   email_templates, sequences>>

-----------------------------------------------------------------------------
(* show_properties, tab "Delete Property", lines 368-388 *)

\* What DELETE FROM properties WHERE id = property_id leaves of the tables:
\* the schema makes the rows that reference the property go with it (section
\* 3: deleting a Property cascades to its Residents, MaintenanceRequests and
\* FinancialTransactions).
delete_from_properties(property_id) ==
    [properties |-> { p \in properties : p.id # property_id },
     residents |-> { r \in residents : r.property_id # property_id },
     maintenance_requests |->
         { mr \in maintenance_requests : mr.property_id # property_id },
     financial_transactions |->
         { ft \in financial_transactions : ft.property_id # property_id }]

\* The tab is run: after a selection, after typing, or after a click on the
\* button.  The run starts with none of the locals of the run before it.
\* o_sel is the store's answer to the SELECT of get_properties,
\* o_del its answer to the DELETE.
DeleteProperty ==
    /\ Ready
    /\ \E o_sel \in DbOutcomes, rows \in QueryResults :
         LET listed == execute_query(o_sel, rows)
             data == get_properties(listed)
             select == <<Stmt("SELECT properties", o_sel)>>
         IN  /\ properties_data' = data
             /\ IF listed.raised
                THEN /\ widgets' = Widgets("Delete Property", 0, <<>>, <<>>)
                     /\ executed' = select
                     /\ log' = listed.shown
                     /\ pc' = "crashed"
                     /\ UNCHANGED <<properties, residents, maintenance_requests,
                                    financial_transactions>>
                ELSE \E selected_property \in {<<>>} \cup keys(property_options(data)) :
                  IF selected_property = <<>>
                  THEN /\ widgets' = Widgets("Delete Property", 0, <<>>, <<>>)
                       /\ executed' = select
                       /\ log' = listed.shown
                       /\ pc' = "idle"
                       /\ UNCHANGED <<properties, residents, maintenance_requests,
                                      financial_transactions>>
                  ELSE \E property_id \in {value_at(data, property_options(data), selected_property)} :
                       \E confirm_text \in ConfirmTexts(property_confirm_phrase(property_id),
                                                       property_id,
                                                       { data[k][0] : k \in 1..Len(data) }) :
                       \E clicked \in Clicks(delete_property_disabled(confirm_text, property_id)) :
                       \E o_del \in Answers(clicked) :
                         LET pressed == button(clicked,
                                               delete_property_disabled(confirm_text, property_id))
                             result == execute_query(o_del, 1)
                             left == IF pressed /\ result.committed
                                     THEN delete_from_properties(property_id)
                                     ELSE [properties |-> properties, residents |-> residents,
                                           maintenance_requests |-> maintenance_requests,
                                           financial_transactions |-> financial_transactions]
                         IN  /\ widgets' = Widgets("Delete Property", property_id, confirm_text,
                                                    property_confirm_phrase(property_id))
                             /\ properties' = left.properties
                             /\ residents' = left.residents
                             /\ maintenance_requests' = left.maintenance_requests
                             /\ financial_transactions' = left.financial_transactions
                             /\ executed' = IF pressed
                                            THEN Append(select, Stmt("DELETE properties", o_del))
                                            ELSE select
                             /\ log' = IF ~pressed THEN listed.shown
                                       ELSE listed.shown \o result.shown
                                              \o (IF TruthyNum(result.returned)
                                                  THEN <<Ev("success",
                                                            <<"Property has been deleted!">>, 0)>>
                                                  ELSE <<>>)
                             /\ pc' = IF pressed /\ result.raised THEN "crashed" ELSE "idle"
    /\ requests_data' = <<>>
    /\ UNCHANGED <<rvars, qvars, session_state, next_property_id, next_resident_id,
                   selected_properties, email_subject, email_body, i, sent_count,
                   failed_count, transport, email_templates, sequences>>

-----------------------------------------------------------------------------
(* show_maintenance, tab "Delete Request", lines 504-524 *)

\* f"#{row[0]} - {row[1]} {row[2] or ''} - {row[4]}", lines 442 and 510
request_label(row) ==
    <<"#">> \o fstr(row[0]) \o <<" - ">> \o row[1] \o <<" ">> \o OrElse(row[2], <<>>)
        \o <<" - ">> \o row[4]
request_labels(data) == [k \in 1..Len(data) |-> request_label(data[k])]

DeleteRequest ==
    /\ Ready
    /\ \E o_sel \in DbOutcomes, rows \in RequestResults :
         LET listed == execute_query(o_sel, rows)
             data == get_maintenance_requests(listed)
             select == <<Stmt("SELECT maintenance_requests", o_sel)>>
         IN  /\ requests_data' = data
             /\ IF listed.raised
                THEN /\ widgets' = Widgets("Delete Request", 0, <<>>, <<>>)
                     /\ executed' = select
                     /\ log' = listed.shown
                     /\ pc' = "crashed"
                     /\ UNCHANGED maintenance_requests
                ELSE \E selected_request \in {<<>>} \cup keys(request_labels(data)) :
                  IF selected_request = <<>>
                  THEN /\ widgets' = Widgets("Delete Request", 0, <<>>, <<>>)
                       /\ executed' = select
                       /\ log' = listed.shown
                       /\ pc' = "idle"
                       /\ UNCHANGED maintenance_requests
                  ELSE \E request_id \in {value_at(data, request_labels(data), selected_request)} :
                       \E confirm_text \in ConfirmTexts(request_confirm_phrase(request_id),
                                                       request_id,
                                                       { data[k][0] : k \in 1..Len(data) }) :
                       \E clicked \in Clicks(delete_request_disabled(confirm_text, request_id)) :
                       \E o_del \in Answers(clicked) :
                         LET pressed == button(clicked,
                                               delete_request_disabled(confirm_text, request_id))
                             result == execute_query(o_del, 1)
                         IN  /\ widgets' = Widgets("Delete Request", request_id, confirm_text,
                                                    request_confirm_phrase(request_id))
                             /\ maintenance_requests' =
                                   IF pressed /\ result.committed
                                   THEN { mr \in maintenance_requests : mr.id # request_id }
                                   ELSE maintenance_requests
                             /\ executed' =
                                   IF pressed
                                   THEN Append(select, Stmt("DELETE maintenance_requests", o_del))
                                   ELSE select
                             /\ log' = IF ~pressed THEN listed.shown
                                       ELSE listed.shown \o result.shown
                                              \o (IF TruthyNum(result.returned)
                                                  THEN <<Ev("success",
                                                            <<"Maintenance request has been deleted!">>,
                                                            0)>>
                                                  ELSE <<>>)
                             /\ pc' = IF pressed /\ result.raised THEN "crashed" ELSE "idle"
    /\ properties_data' = <<>>
    /\ UNCHANGED <<rvars, qvars, session_state, store, selected_properties, email_subject,
                   email_body, i, sent_count, failed_count, transport,
                   financial_transactions, email_templates, sequences>>

-----------------------------------------------------------------------------
(* show_email_center, tab "Delete Template", lines 804-876 *)

\* lines 813-816: f"{template[1]} ({template[2] if template[2] else 'General'}) - {status}"
template_label(row) ==
    row[1] \o <<" (">> \o OrElse(row[2], <<"General">>) \o <<") - ">>
        \o (IF row[3] THEN <<"Active">> ELSE <<"Inactive">>)
template_labels(templates) == [k \in 1..Len(templates) |-> template_label(templates[k])]

\* the row of the detail SELECT, line 824: column 0 is id (the other columns
\* are shown and decide nothing)
TemplateDetailRows(template_id) ==
    { (0 :> t.id @@ 1 :> t.template_name) :
        t \in { x \in email_templates : x.id = template_id } }

\* o_sel is the store's answer to the SELECT of the list (line 809), o_det
\* its answer to the SELECT of the details (line 825), o_del its answer to
\* the DELETE (line 859).
DeleteTemplate ==
    /\ Ready
    /\ \E o_sel \in DbOutcomes, rows \in TemplateResults :
         LET listed == execute_query(o_sel, rows)
             templates == IF Truthy(listed.returned) THEN listed.returned.val ELSE <<>>
             select == <<Stmt("SELECT email_templates", o_sel)>>
             none == <<Ev("info", <<"No templates found to delete.">>, 0)>>
         IN  IF listed.raised
             THEN /\ widgets' = Widgets("Delete Template", 0, <<>>, <<>>)
                  /\ executed' = select
                  /\ log' = listed.shown
                  /\ pc' = "crashed"
                  /\ UNCHANGED email_templates
             ELSE \E selected_template \in {<<>>} \cup keys(template_labels(templates)) :
               IF selected_template = <<>>
               THEN /\ widgets' = Widgets("Delete Template", 0, <<>>, <<>>)
                    /\ executed' = select
                    /\ log' = listed.shown \o (IF templates = <<>> THEN none ELSE <<>>)
                    /\ pc' = "idle"
                    /\ UNCHANGED email_templates
               ELSE \E template_id \in {value_at(templates, template_labels(templates),
                                                  selected_template)},
                       o_det \in DbOutcomes :
                    \E found \in Lists(TemplateDetailRows(template_id)) :
                    \E template_details \in {execute_query(o_det, found)} :
                      IF ~Truthy(template_details.returned)
                      THEN /\ widgets' = Widgets("Delete Template", template_id, <<>>, <<>>)
                           /\ executed' = Append(select,
                                                 Stmt("SELECT email_templates by id", o_det))
                           /\ log' = template_details.shown
                           /\ pc' = IF template_details.raised THEN "crashed" ELSE "idle"
                           /\ UNCHANGED email_templates
                      ELSE \E details \in {template_details.returned.val[1]} :
                           \E confirm_text \in
                                  ConfirmTexts(template_confirm_phrase(details[0]), details[0],
                                               { templates[k][0] : k \in 1..Len(templates) }) :
                           \E clicked \in Clicks(delete_template_disabled(confirm_text,
                                                                           details[0])) :
                           \* one button is pressed in a run, at most
                           \E cancel \in Clicks(clicked) :
                           \E o_del \in Answers(clicked) :
                             LET mismatched == delete_template_disabled(confirm_text, details[0])
                                 pressed == button(clicked, mismatched)
                                 result == execute_query(o_del, 1)
                                 \* lines 872-874
                                 mismatch ==
                                     IF mismatched /\ confirm_text # <<>>
                                     THEN <<Ev("error",
                                               <<"Confirmation text doesn't match.">>, 0)>>
                                     ELSE <<>>
                             IN  /\ widgets' = Widgets("Delete Template", template_id,
                                                        confirm_text,
                                                        template_confirm_phrase(details[0]))
                                 /\ email_templates' =
                                       IF pressed /\ result.committed
                                       THEN { t \in email_templates : t.id # template_id }
                                       ELSE email_templates
                                 /\ executed' =
                                       Append(select,
                                              Stmt("SELECT email_templates by id", o_det))
                                         \o (IF pressed
                                             THEN <<Stmt("DELETE email_templates", o_del)>>
                                             ELSE <<>>)
                                 \* lines 861-866 and 868-870: st.rerun() ends the
                                 \* run, after a delete and after Cancel, before the
                                 \* message of lines 872-874
                                 /\ log' =
                                       IF cancel THEN <<>>
                                       ELSE IF ~pressed THEN mismatch
                                       ELSE IF result.raised THEN result.shown
                                       ELSE IF TruthyNum(result.returned)
                                       THEN <<Ev("success",
                                                 <<"Email template has been deleted!">>, 0)>>
                                       ELSE result.shown
                                              \o <<Ev("error",
                                                      <<"Failed to delete the template.">>, 0)>>
                                              \o mismatch
                                 /\ pc' = IF pressed /\ result.raised THEN "crashed"
                                          ELSE "idle"
    /\ properties_data' = <<>>
    /\ requests_data' = <<>>
    /\ UNCHANGED <<rvars, qvars, session_state, store, selected_properties, email_subject,
                   email_body, i, sent_count, failed_count, transport,
                   maintenance_requests, financial_transactions, sequences>>

-----------------------------------------------------------------------------
(* show_maintenance, tab "Edit Request", lines 438-502 *)

\* the statuses of a maintenance request
Statuses == {"Open", "In Progress", "Completed", "Cancelled"}

\* the Status selectbox offering nothing else for a request that is closed
status_options_terminal(current) ==
    IF current \in {"Completed", "Cancelled"} THEN {current} ELSE Statuses

\* lines 465-466: the Status selectbox offers the four statuses whatever the
\* current one is (the current one is only the default)
status_options(current) == Statuses

\* the row of the detail SELECT, lines 448-457: column 0 is mr.id, 6 mr.title,
\* 12 mr.status (the other columns are read by no handler modelled here)
DetailRows(request_id) ==
    { (0 :> mr.id @@ 6 :> mr.title @@ 12 :> mr.status @@ 14 :> mr.expected_completion) :
        mr \in { x \in maintenance_requests :
                    /\ x.id = request_id
                    /\ \E p \in properties : p.id = x.property_id } }

\* what is typed into Title: what is there, or a new title
NewTitles(title) == { title, <<"Leak">> }

\* lines 476-477: what the Expected Completion input holds: the date stored
\* (its default), or the last of the days
ExpectedCompletions(stored) == { stored, Some(3) }

\* the UPDATE of lines 486-497: it sets priority, title, description,
\* assigned_to, estimated_cost, actual_cost, status, notes and
\* expected_completion, and no other column
update_request(request_id, new_title, new_status, new_expected_completion) ==
    { IF mr.id = request_id
      THEN [mr EXCEPT !.title = new_title, !.status = new_status,
                      !.expected_completion = new_expected_completion]
      ELSE mr : mr \in maintenance_requests }

\* o_sel is the store's answer to the SELECT of get_maintenance_requests,
\* o_det its answer to the SELECT of the details, o_upd its answer to the
\* UPDATE.
EditRequest ==
    /\ Ready
    /\ \E o_sel \in DbOutcomes, rows \in RequestResults :
         LET listed == execute_query(o_sel, rows)
             data == get_maintenance_requests(listed)
             select == <<Stmt("SELECT maintenance_requests", o_sel)>>
         IN  /\ requests_data' = data
             /\ IF listed.raised \/ data = <<>>
                THEN /\ widgets' = Widgets("Edit Request", 0, <<>>, <<>>)
                     /\ executed' = select
                     /\ log' = listed.shown
                                \o (IF listed.raised THEN <<>>
                                    ELSE <<Ev("info", <<"No maintenance requests found.">>, 0)>>)
                     /\ pc' = IF listed.raised THEN "crashed" ELSE "idle"
                     /\ UNCHANGED maintenance_requests
                ELSE \E selected_request \in keys(request_labels(data)), o_det \in DbOutcomes :
                     \E request_id \in {value_at(data, request_labels(data), selected_request)} :
                     \E found \in Lists(DetailRows(request_id)) :
                     \E request_details \in {execute_query(o_det, found)} :
                       IF ~Truthy(request_details.returned)
                       THEN /\ widgets' = Widgets("Edit Request", request_id, <<>>, <<>>)
                            /\ executed' = Append(select,
                                                  Stmt("SELECT maintenance_requests by id", o_det))
                            /\ log' = request_details.shown
                            /\ pc' = IF request_details.raised THEN "crashed" ELSE "idle"
                            /\ UNCHANGED maintenance_requests
                       ELSE \E details \in {request_details.returned.val[1]} :
                            \E new_status \in status_options(details[12]),
                               new_title \in NewTitles(details[6]),
                               new_expected_completion \in ExpectedCompletions(details[14]),
                               submitted \in BOOLEAN :
                            \E o_upd \in Answers(submitted) :
                              LET result == execute_query(o_upd, 1)
                              IN  /\ widgets' = [Widgets("Edit Request", request_id, <<>>, <<>>)
                                                   EXCEPT !.new_status = new_status,
                                                          !.new_title = new_title,
                                                          !.inputs =
                                                              [new_expected_completion |->
                                                                  new_expected_completion]]
                                  /\ maintenance_requests' =
                                        IF submitted /\ result.committed
                                        THEN update_request(request_id, new_title, new_status,
                                                            new_expected_completion)
                                        ELSE maintenance_requests
                                  /\ executed' =
                                        Append(select,
                                               Stmt("SELECT maintenance_requests by id", o_det))
                                          \o (IF submitted
                                              THEN <<Stmt("UPDATE maintenance_requests", o_upd)>>
                                              ELSE <<>>)
                                  /\ log' =
                                        IF ~submitted THEN <<>>
                                        ELSE result.shown
                                               \o (IF TruthyNum(result.returned)
                                                   THEN <<Ev("success",
                                                             <<"Maintenance request updated successfully!">>,
                                                             0)>>
                                                   ELSE <<>>)
                                  /\ pc' = IF submitted /\ result.raised THEN "crashed"
                                           ELSE "idle"
    /\ properties_data' = <<>>
    /\ UNCHANGED <<rvars, qvars, session_state, store, selected_properties, email_subject,
                   email_body, i, sent_count, failed_count, transport,
                   financial_transactions, email_templates, sequences>>

-----------------------------------------------------------------------------
(* show_email_center, "Use Email Template", lines 645-664 *)

\* the SELECT with no WHERE clause
ActiveTemplateRows_all ==
    { (0 :> t.id @@ 1 :> t.template_name @@ 2 :> t.subject_line @@ 3 :> t.body_template) :
        t \in email_templates }

\* line 646: SELECT id, template_name, subject_line, body_template
\* FROM email_templates WHERE is_active = true
ActiveTemplateRows ==
    { (0 :> t.id @@ 1 :> t.template_name @@ 2 :> t.subject_line @@ 3 :> t.body_template) :
        t \in { x \in email_templates : x.is_active } }

\* line 650: the keys of {f"{row[1]}": row[0] for row in templates}
template_names(templates) == [k \in 1..Len(templates) |-> templates[k][1]]

\* lines 655-664: the first row whose id is template_id
template_with_id(templates, template_id) ==
    LET hits == { k \in 1..Len(templates) : templates[k][0] = template_id }
    IN  templates[CHOOSE k \in hits : \A h \in hits : k <= h]

\* The part of the page under "Use Email Template" is run: after a selection
\* or after a click on "Use This Template".  o_sel is the store's answer to
\* the SELECT.
UseTemplate ==
    /\ Ready
    /\ \E o_sel \in DbOutcomes, rows \in SortedByName(ActiveTemplateRows) :
         LET listed == execute_query(o_sel, rows)
             templates == IF Truthy(listed.returned) THEN listed.returned.val ELSE <<>>
             offered == keys(template_names(templates))
         IN  /\ executed' = <<Stmt("SELECT active email_templates", o_sel)>>
             /\ log' = listed.shown
             /\ pc' = IF listed.raised THEN "crashed" ELSE "idle"
             /\ \E selected_template_name \in {<<"Custom">>} \cup offered :
                  IF templates = <<>> \/ selected_template_name = <<"Custom">>
                  THEN /\ widgets' = [Widgets("Use Template", 0, <<>>, <<>>)
                                        EXCEPT !.inputs = [offered |-> offered,
                                                           selected |-> <<"Custom">>,
                                                           loaded |-> FALSE]]
                       /\ UNCHANGED session_state
                  ELSE \E template_id \in {value_at(templates, template_names(templates),
                                                     selected_template_name)} :
                       \E template \in {template_with_id(templates, template_id)},
                          clicked \in BOOLEAN :
                         /\ widgets' = [Widgets("Use Template", template_id, <<>>, <<>>)
                                          EXCEPT !.inputs = [offered |-> offered,
                                                             selected |-> selected_template_name,
                                                             loaded |-> clicked]]
                         \* lines 661-662
                         /\ session_state' =
                               IF clicked
                               THEN [email_subject |-> Some(template[2]),
                                     email_body |-> Some(template[3])]
                               ELSE session_state
    /\ properties_data' = <<>>
    /\ requests_data' = <<>>
    /\ UNCHANGED <<rvars, qvars, store, selected_properties, email_subject, email_body, i,
                   sent_count, failed_count, transport, maintenance_requests,
                   financial_transactions, email_templates, sequences>>

-----------------------------------------------------------------------------
(* show_email_center, tab "Email Templates", lines 666-689 *)

\* one row of the SELECT of line 668 and of line 745: column 0 is id,
\* 1 template_name, 2 subject_line, 3 body_template, 4 template_type,
\* 5 is_active (created_date, column 6 of line 668, is only shown)
TemplateFullRows ==
    { (0 :> t.id @@ 1 :> t.template_name @@ 2 :> t.subject_line @@ 3 :> t.body_template
         @@ 4 :> t.template_type @@ 5 :> t.is_active) : t \in email_templates }

\* the UPDATE of line 685 with params (not template[5], template[0])
toggle_template(template) ==
    { IF t.id = template[0] THEN [t EXCEPT !.is_active = ~template[5]] ELSE t :
        t \in email_templates }

\* The tab is run, with a click on the Activate / Deactivate button of the
\* template at position pressed of the list (0: on none).  What the UPDATE
\* returns is not looked at (line 686).
ToggleTemplate ==
    /\ Ready
    /\ \E o_sel \in DbOutcomes, rows \in SortedByName(TemplateFullRows) :
         LET listed == execute_query(o_sel, rows)
             templates == IF Truthy(listed.returned) THEN listed.returned.val ELSE <<>>
             select == <<Stmt("SELECT email_templates", o_sel)>>
         IN  \E pressed \in 0..Len(templates) :
             \E o_upd \in Answers(pressed # 0) :
               LET result == execute_query(o_upd, 1)
               IN  /\ widgets' = Widgets("Toggle Template",
                                          IF pressed = 0 THEN 0 ELSE templates[pressed][0],
                                          <<>>, <<>>)
                   /\ email_templates' =
                         IF pressed # 0 /\ result.committed
                         THEN toggle_template(templates[pressed])
                         ELSE email_templates
                   /\ executed' = IF pressed = 0 THEN select
                                  ELSE Append(select, Stmt("UPDATE email_templates", o_upd))
                   /\ log' = listed.shown
                               \o (IF templates = <<>>
                                   THEN <<Ev("info", <<"No email templates found.">>, 0)>>
                                   ELSE <<>>)
                               \o (IF pressed = 0 THEN <<>> ELSE result.shown)
                   /\ pc' = IF listed.raised \/ (pressed # 0 /\ result.raised)
                            THEN "crashed" ELSE "idle"
    /\ properties_data' = <<>>
    /\ requests_data' = <<>>
    /\ UNCHANGED <<rvars, qvars, session_state, store, selected_properties, email_subject,
                   email_body, i, sent_count, failed_count, transport, maintenance_requests,
                   financial_transactions, sequences>>

-----------------------------------------------------------------------------
(* show_email_center, tab "Add Template", lines 691-740 *)

\* lines 698-699: the options of Template Type
TemplateTypes ==
    { <<"Monthly Statement">>, <<"Maintenance Notice">>, <<"General">>,
      <<"Assessment Notice">>, <<"Meeting Notice">>, <<"Violation Notice">> }

\* what is typed into the form: a second template named "Monthly", with
\* Active left ticked, and a template with no subject
AddTemplateForms ==
    { [template_name |-> <<"Monthly">>, template_type |-> <<"General">>,
       is_active |-> TRUE, subject_line |-> <<"Dues">>,
       body_template |-> <<"Hi ">> \o Placeholder("resident_name")],
      [template_name |-> <<"Notice">>, template_type |-> <<"General">>,
       is_active |-> TRUE, subject_line |-> <<>>,
       body_template |-> <<"Hi ">> \o Placeholder("resident_name")] }

\* o_ins is the store's answer to the INSERT of lines 730-735.
AddTemplate ==
    /\ Ready
    /\ next_template_id <= MaxTemplates
    /\ \E form \in AddTemplateForms, clicked \in BOOLEAN :
       \E submitted \in {clicked /\ form.template_name # <<>> /\ form.subject_line # <<>>
                            /\ form.body_template # <<>>} :
       \E o_ins \in Answers(submitted) :
         LET result == execute_query(o_ins, 1)
             inserted == submitted /\ result.committed
         IN  /\ widgets' = [Widgets("Add Template", 0, <<>>, <<>>) EXCEPT !.inputs = form]
             /\ email_templates' =
                   IF inserted
                   THEN email_templates \cup
                          { [id |-> next_template_id, template_name |-> form.template_name,
                             template_type |-> Some(form.template_type),
                             is_active |-> form.is_active,
                             subject_line |-> form.subject_line,
                             body_template |-> form.body_template] }
                   ELSE email_templates
             /\ next_template_id' = IF inserted THEN next_template_id + 1
                                    ELSE next_template_id
             /\ executed' = IF submitted THEN <<Stmt("INSERT email_templates", o_ins)>>
                            ELSE <<>>
             /\ log' = IF ~submitted THEN <<>>
                       ELSE result.shown
                              \o (IF TruthyNum(result.returned)
                                  THEN <<Ev("success",
                                            <<"Email template created successfully!">>, 0)>>
                                  ELSE <<>>)
             /\ pc' = IF submitted /\ result.raised THEN "crashed" ELSE "idle"
    /\ properties_data' = <<>>
    /\ requests_data' = <<>>
    /\ UNCHANGED <<rvars, qvars, session_state, store, selected_properties, email_subject,
                   email_body, i, sent_count, failed_count, transport, maintenance_requests,
                   financial_transactions, next_request_id, next_transaction_id>>

-----------------------------------------------------------------------------
(* show_email_center, tab "Edit Template", lines 742-802 *)

\* line 749: f"{row[1]} ({'Active' if row[5] else 'Inactive'})"
edit_template_label(row) ==
    row[1] \o <<" (">> \o (IF row[5] THEN <<"Active">> ELSE <<"Inactive">>) \o <<")">>
edit_template_labels(templates) ==
    [k \in 1..Len(templates) |-> edit_template_label(templates[k])]

\* lines 766-768: the Template Type selectbox starts at the stored type when
\* it is one of the options and at "General" otherwise
default_template_type(stored) ==
    IF ~stored.isNone /\ stored.val \in TemplateTypes THEN stored.val ELSE <<"General">>

\* the UPDATE of lines 788-796
update_template(template_id, form) ==
    { IF t.id = template_id
      THEN [t EXCEPT !.template_name = form.new_template_name,
                     !.subject_line = form.new_subject_line,
                     !.body_template = form.new_body_template,
                     !.template_type = Some(form.new_template_type),
                     !.is_active = form.new_is_active]
      ELSE t : t \in email_templates }

\* The tab is run.  The inputs hold their defaults but for the Active
\* checkbox, which is ticked or cleared, and the subject, which is left or
\* emptied.  o_sel is the store's answer to the SELECT of line 746, o_upd
\* its answer to the UPDATE.
EditTemplate ==
    /\ Ready
    /\ \E o_sel \in DbOutcomes, rows \in SortedByName(TemplateFullRows) :
         LET listed == execute_query(o_sel, rows)
             templates == IF Truthy(listed.returned) THEN listed.returned.val ELSE <<>>
             select == <<Stmt("SELECT email_templates", o_sel)>>
         IN  IF templates = <<>>
             THEN /\ widgets' = Widgets("Edit Template", 0, <<>>, <<>>)
                  /\ executed' = select
                  /\ log' = listed.shown
                              \o (IF listed.raised THEN <<>>
                                  ELSE <<Ev("info", <<"No templates found.">>, 0)>>)
                  /\ pc' = IF listed.raised THEN "crashed" ELSE "idle"
                  /\ UNCHANGED email_templates
             ELSE \E selected_template \in keys(edit_template_labels(templates)) :
                  \E template_id \in {value_at(templates, edit_template_labels(templates),
                                                selected_template)} :
                  \E template_details \in {template_with_id(templates, template_id)} :
                  \E new_is_active \in BOOLEAN,
                     new_subject_line \in {template_details[2], <<>>},
                     clicked \in BOOLEAN :
                  \E form \in {[new_template_name |-> template_details[1],
                                 new_subject_line |-> new_subject_line,
                                 new_body_template |-> template_details[3],
                                 new_template_type |->
                                     default_template_type(template_details[4]),
                                 new_is_active |-> new_is_active]} :
                  \E submitted \in {clicked /\ form.new_template_name # <<>>
                                       /\ form.new_subject_line # <<>>
                                       /\ form.new_body_template # <<>>} :
                  \E o_upd \in Answers(submitted) :
                    LET result == execute_query(o_upd, 1)
                    IN  /\ widgets' = [Widgets("Edit Template", template_id, <<>>, <<>>)
                                         EXCEPT !.inputs = form]
                        /\ email_templates' =
                              IF submitted /\ result.committed
                              THEN update_template(template_id, form)
                              ELSE email_templates
                        /\ executed' = IF submitted
                                       THEN Append(select,
                                                   Stmt("UPDATE email_templates", o_upd))
                                       ELSE select
                        /\ log' = IF ~submitted THEN <<>>
                                  ELSE result.shown
                                         \o (IF TruthyNum(result.returned)
                                             THEN <<Ev("success",
                                                       <<"Email template updated successfully!">>,
                                                       0)>>
                                             ELSE <<>>)
                        /\ pc' = IF submitted /\ result.raised THEN "crashed" ELSE "idle"
    /\ properties_data' = <<>>
    /\ requests_data' = <<>>
    /\ UNCHANGED <<rvars, qvars, session_state, store, selected_properties, email_subject,
                   email_body, i, sent_count, failed_count, transport, maintenance_requests,
                   financial_transactions, sequences>>

-----------------------------------------------------------------------------
(* show_maintenance, tab "New Request", lines 403-436 *)

\* the days a date can be (date.today(), st.date_input)
Days == 1..3

\* The row that the INSERT of lines 426-430 adds.  The statement names
\* property_id, title, expected_completion (and type, priority, description,
\* reporter and cost, which the model leaves out); status and created_date
\* get the defaults of the schema: a new request is Open (section 4.3) and
\* is created now, later than every request before it.
inserted_request(property_id, title, expected_completion) ==
    [id |-> next_request_id, property_id |-> property_id, title |-> title,
     status |-> "Open", created_date |-> next_request_id, completed_date |-> NoneInt,
     expected_completion |-> Some(expected_completion)]

\* o_sel is the store's answer to the SELECT of get_properties, o_ins its
\* answer to the INSERT.
NewRequest ==
    /\ Ready
    /\ Cardinality(maintenance_requests) < MaxRequests
    /\ \E o_sel \in DbOutcomes, rows \in QueryResults :
         LET listed == execute_query(o_sel, rows)
             data == get_properties(listed)
             select == <<Stmt("SELECT properties", o_sel)>>
         IN  /\ properties_data' = data
             /\ IF listed.raised \/ data = <<>>
                THEN /\ widgets' = Widgets("New Request", 0, <<>>, <<>>)
                     /\ executed' = select
                     /\ log' = listed.shown
                     /\ pc' = IF listed.raised THEN "crashed" ELSE "idle"
                     /\ UNCHANGED <<maintenance_requests, next_request_id>>
                ELSE \E selected_property \in keys(property_options(data)),
                        title \in {<<>>, <<"Leak">>}, expected_completion \in Days,
                        clicked \in BOOLEAN :
                     \E property_id \in {value_at(data, property_options(data),
                                                  selected_property)} :
                     \E submitted \in {clicked /\ selected_property # <<>> /\ title # <<>>} :
                     \E o_ins \in Answers(submitted) :
                       LET result == execute_query(o_ins, 1)
                           inserted == submitted /\ result.committed
                       IN  /\ widgets' = [Widgets("New Request", property_id, <<>>, <<>>)
                                            EXCEPT !.inputs =
                                               [title |-> title,
                                                expected_completion |-> expected_completion]]
                           /\ maintenance_requests' =
                                 IF inserted
                                 THEN maintenance_requests
                                        \cup {inserted_request(property_id, title,
                                                               expected_completion)}
                                 ELSE maintenance_requests
                           /\ next_request_id' = IF inserted THEN next_request_id + 1
                                                 ELSE next_request_id
                           /\ executed' = IF submitted
                                          THEN Append(select,
                                                      Stmt("INSERT maintenance_requests", o_ins))
                                          ELSE select
                           /\ log' = IF ~submitted THEN listed.shown
                                     ELSE listed.shown \o result.shown
                                            \o (IF TruthyNum(result.returned)
                                                THEN <<Ev("success",
                                                          <<"Maintenance request submitted!">>,
                                                          0)>>
                                                ELSE <<>>)
                           /\ pc' = IF submitted /\ result.raised THEN "crashed" ELSE "idle"
    /\ requests_data' = <<>>
    /\ UNCHANGED <<rvars, qvars, session_state, store, selected_properties, email_subject,
                   email_body, i, sent_count, failed_count, transport,
                   financial_transactions, email_templates, next_transaction_id,
                   next_template_id>>

-----------------------------------------------------------------------------
(* execute_query, lines 24-51, step by step *)

\* The operator execute_query above gives what a call returns and whether
\* its statement was committed; the actions below follow one call through
\* its try, except and finally blocks.  Each of psycopg2.connect,
\* conn.cursor, cur.execute, cur.fetchall and conn.commit returns or raises;
\* cur.close and conn.close return.  init_connection (lines 13-21) is called
\* nowhere in the source.

\* the finally block with conn.close() under the test for cur
finally_block_nested(c, n) ==
    [cur |-> IF c = "unbound" THEN c ELSE "closed",
     conn |-> IF c = "unbound" \/ n = "unbound" THEN n ELSE "closed"]

\* lines 47-51: cur and conn are closed when the names are bound
finally_block(c, n) ==
    [cur |-> IF c = "unbound" THEN c ELSE "closed",
     conn |-> IF n = "unbound" THEN n ELSE "closed"]

\* execute_query(query, params, fetch) is called: the frame is new
Call ==
    /\ qpc = "idle"
    /\ calls < MaxCalls
    /\ calls' = calls + 1
    /\ \E f \in BOOLEAN : fetch' = f
    /\ conn' = "unbound"
    /\ cur' = "unbound"
    /\ transaction' = "none"
    /\ connections' = 0
    /\ statements' = 0
    /\ query_result' = "pending"
    /\ qpc' = "connect"
    /\ UNCHANGED <<rvars, store, session, crud, session_state, open_connections>>

\* lines 26-32: conn = psycopg2.connect(...)
Connect ==
    /\ qpc = "connect"
    /\ \E raises \in BOOLEAN :
         IF raises
         THEN /\ qpc' = "except"
              /\ UNCHANGED <<conn, connections, open_connections>>
         ELSE /\ qpc' = "cursor"
              /\ conn' = "open"
              /\ connections' = connections + 1
              /\ open_connections' = open_connections + 1
    /\ UNCHANGED <<rvars, store, session, crud, session_state, fetch, cur, transaction,
                   statements, query_result, calls>>

\* line 33: cur = conn.cursor()
Cursor ==
    /\ qpc = "cursor"
    /\ \E raises \in BOOLEAN :
         IF raises
         THEN qpc' = "except" /\ UNCHANGED cur
         ELSE qpc' = "execute" /\ cur' = "open"
    /\ UNCHANGED <<rvars, store, session, crud, session_state, fetch, conn, transaction,
                   connections, statements, query_result, open_connections, calls>>

\* line 34: cur.execute(query, params); the statement is sent and opens the
\* transaction of the connection, whether the store accepts it or not
Execute ==
    /\ qpc = "execute"
    /\ statements' = statements + 1
    /\ transaction' = "open"
    /\ \E raises \in BOOLEAN :
         qpc' = IF raises THEN "except" ELSE IF fetch THEN "fetchall" ELSE "commit"
    /\ UNCHANGED <<rvars, store, session, crud, session_state, fetch, conn, cur, connections,
                   query_result, open_connections, calls>>

\* line 37: result = cur.fetchall()
Fetchall ==
    /\ qpc = "fetchall"
    /\ \E raises \in BOOLEAN : qpc' = IF raises THEN "except" ELSE "commit"
    /\ UNCHANGED <<rvars, store, session, crud, session_state, fetch, conn, cur,
                   transaction, connections, statements, query_result, open_connections,
                   calls>>

\* lines 38-39 and 41-42: conn.commit() and the return statement, which
\* hands over to the finally block
Commit ==
    /\ qpc = "commit"
    /\ \E raises \in BOOLEAN :
         IF raises
         THEN /\ qpc' = "except"
              /\ UNCHANGED <<transaction, query_result>>
         ELSE /\ qpc' = "finally"
              /\ transaction' = "committed"
              /\ query_result' = IF fetch THEN "rows" ELSE "rowcount"
    /\ UNCHANGED <<rvars, store, session, crud, session_state, fetch, conn, cur,
                   connections, statements, open_connections, calls>>

\* lines 44-46: None is returned (the error shown is part of what the
\* operator execute_query gives)
Except ==
    /\ qpc = "except"
    /\ query_result' = "None"
    /\ qpc' = "finally"
    /\ UNCHANGED <<rvars, store, session, crud, session_state, fetch, conn, cur,
                   transaction, connections, statements, open_connections, calls>>

\* lines 47-51, and the return to the caller.  Closing a connection whose
\* transaction is open discards the transaction.
Finally ==
    /\ qpc = "finally"
    /\ \E closed \in {finally_block(cur, conn)} :
         /\ cur' = closed.cur
         /\ conn' = closed.conn
         /\ open_connections' = IF conn = "open" /\ closed.conn = "closed"
                                THEN open_connections - 1 ELSE open_connections
         /\ transaction' = IF transaction = "open" /\ closed.conn = "closed"
                           THEN "rolled back" ELSE transaction
    /\ qpc' = "idle"
    /\ UNCHANGED <<rvars, store, session, crud, session_state, fetch, connections, statements,
                   query_result, calls>>

-----------------------------------------------------------------------------
(* show_financial, lines 526-573 *)

\* the rows of the SELECT of lines 532-539: column 0 is ft.id, 1 p.address,
\* 2 p.unit_number, 3 ft.transaction_type, 5 ft.amount, 7 ft.due_date
\* (category, description and paid_date, columns 4, 6 and 8, are stored by
\* no statement modelled here beyond the INSERT and are left out)
TransactionRows ==
    { (0 :> ft.id @@ 1 :> p.address @@ 2 :> p.unit_number @@ 3 :> ft.transaction_type
         @@ 5 :> ft.amount @@ 7 :> ft.due_date) :
        <<ft, p>> \in { x \in financial_transactions \X properties :
                          x[1].property_id = x[2].id } }

\* ORDER BY ft.created_date DESC: created_date is filled by the store at the
\* INSERT, so the later id comes first
TransactionResults ==
    { f \in Lists(TransactionRows) : \A a, b \in 1..Len(f) : a < b => f[a][0] > f[b][0] }

\* Tab "View Transactions", lines 531-544: the list is read and shown.
ViewTransactions ==
    /\ Ready
    /\ \E o_sel \in DbOutcomes, rows \in TransactionResults :
         LET transactions == execute_query(o_sel, rows)
         IN  /\ widgets' = [Widgets("View Transactions", 0, <<>>, <<>>)
                              EXCEPT !.inputs = IF Truthy(transactions.returned)
                                                THEN transactions.returned.val ELSE <<>>]
             /\ executed' = <<Stmt("SELECT financial_transactions", o_sel)>>
             /\ log' = transactions.shown
             /\ pc' = IF transactions.raised THEN "crashed" ELSE "idle"
    /\ properties_data' = <<>>
    /\ requests_data' = <<>>
    /\ UNCHANGED <<rvars, qvars, session_state, store, selected_properties, email_subject,
                   email_body, i, sent_count, failed_count, transport, maintenance_requests,
                   financial_transactions, email_templates, sequences>>

\* lines 555, 557: the options of Transaction Type, and the amounts typed
TransactionTypes == {"Assessment", "Payment", "Fee", "Fine", "Credit"}
Amounts == {0, 100, -40}

\* Tab "Add Transaction", lines 546-573.  o_sel is the store's answer to the
\* SELECT of get_properties, o_ins its answer to the INSERT of lines 564-570.
\* With no property to choose the selectbox holds None (line 554).
AddTransaction ==
    /\ Ready
    /\ Cardinality(financial_transactions) < MaxTransactions
    /\ \E o_sel \in DbOutcomes, rows \in QueryResults :
       \E data \in {get_properties(execute_query(o_sel, rows))} :
       \E selected_property \in IF data = <<>> THEN {<<>>}
                                 ELSE keys(property_options(data)) :
       \E transaction_type \in TransactionTypes, amount \in Amounts, day \in Days,
          clicked \in BOOLEAN :
       \E due_date \in {IF transaction_type = "Assessment" THEN Some(day) ELSE NoneInt} :
       \E submitted \in {clicked /\ selected_property # <<>> /\ amount # 0} :
       \E o_ins \in Answers(submitted) :
         LET listed == execute_query(o_sel, rows)
             result == execute_query(o_ins, 1)
             inserted == submitted /\ result.committed
         IN  /\ day = 1 \/ transaction_type = "Assessment"
             /\ properties_data' = data
             /\ widgets' = [Widgets("Add Transaction",
                                     IF submitted
                                     THEN value_at(data, property_options(data),
                                                   selected_property)
                                     ELSE 0, <<>>, <<>>)
                              EXCEPT !.inputs = [transaction_type |-> transaction_type,
                                                 amount |-> amount, due_date |-> due_date]]
             /\ financial_transactions' =
                   IF inserted
                   THEN financial_transactions \cup
                          { [id |-> next_transaction_id,
                             property_id |-> value_at(data, property_options(data),
                                                      selected_property),
                             transaction_type |-> transaction_type,
                             amount |-> amount, due_date |-> due_date] }
                   ELSE financial_transactions
             /\ next_transaction_id' = IF inserted THEN next_transaction_id + 1
                                       ELSE next_transaction_id
             /\ executed' = <<Stmt("SELECT properties", o_sel)>>
                              \o (IF submitted
                                  THEN <<Stmt("INSERT financial_transactions", o_ins)>>
                                  ELSE <<>>)
             /\ log' = listed.shown
                         \o (IF ~submitted THEN <<>>
                             ELSE result.shown
                                    \o (IF TruthyNum(result.returned)
                                        THEN <<Ev("success", <<"Transaction added!">>, 0)>>
                                        ELSE <<>>))
             /\ pc' = IF listed.raised \/ (submitted /\ result.raised)
                      THEN "crashed" ELSE "idle"
    /\ requests_data' = <<>>
    /\ UNCHANGED <<rvars, qvars, session_state, store, selected_properties, email_subject,
                   email_body, i, sent_count, failed_count, transport, maintenance_requests,
                   email_templates, next_request_id, next_template_id>>

-----------------------------------------------------------------------------
(* show_dashboard, lines 192-241, and get_financial_summary, lines 86-95 *)

RECURSIVE SumOfAmounts(_)
SumOfAmounts(transactions) ==
    IF transactions = {} THEN 0
    ELSE LET ft == CHOOSE x \in transactions : TRUE
         IN  ft.amount + SumOfAmounts(transactions \ {ft})

\* the one row of the SELECT of lines 87-94: column 0 is COUNT(DISTINCT
\* property_id), column 3 SUM(amount), which is NULL over no rows (columns 1
\* and 2, the sums by sign, are not read by the dashboard)
FinancialSummaryRows ==
    << (0 :> Cardinality({ ft.property_id : ft \in financial_transactions })
          @@ 3 :> (IF financial_transactions = {} THEN NoneInt
                   ELSE Some(SumOfAmounts(financial_transactions)))) >>

\* st.metric(label, value)
Metric(label, value) == Ev("metric", <<label>>, value)

\* lines 203-206
total_properties(data) == Len(data)
\* lines 209-213
open_requests(data) == Cardinality({ k \in 1..Len(data) : data[k][5] = "Open" })
\* lines 216-220: financial_data[0][3] or 0
net_balance(summary_rows) ==
    IF Truthy(summary_rows) THEN OrElseNum(summary_rows.val[1][3], 0) ELSE 0
\* lines 223-231: request[5] == 'Open' and request[9] and request[9] < today
overdue_count(data, today) ==
    Cardinality({ k \in 1..Len(data) :
                    /\ data[k][5] = "Open"
                    /\ ~data[k][9].isNone
                    /\ data[k][9].val < today })

\* The page is run.  o_p, o_m and o_f are the store's answers to the three
\* SELECTs of lines 195-197; today is date.today().
ShowDashboard ==
    /\ Ready
    /\ \E o_p, o_m, o_f \in DbOutcomes, rows_p \in QueryResults, rows_m \in RequestResults,
          today \in Days :
         LET listed_p == execute_query(o_p, rows_p)
             listed_m == execute_query(o_m, rows_m)
             listed_f == execute_query(o_f, FinancialSummaryRows)
             data_p == get_properties(listed_p)
             data_m == get_maintenance_requests(listed_m)
         IN  /\ properties_data' = data_p
             /\ requests_data' = data_m
             /\ widgets' = [Widgets("Dashboard", 0, <<>>, <<>>)
                              EXCEPT !.inputs = [today |-> today]]
             /\ executed' = <<Stmt("SELECT properties", o_p),
                              Stmt("SELECT maintenance_requests", o_m),
                              Stmt("SELECT financial summary", o_f)>>
             /\ log' = listed_p.shown \o listed_m.shown \o listed_f.shown
                         \o <<Metric("Total Properties", total_properties(data_p)),
                              Metric("Open Maintenance", open_requests(data_m)),
                              Metric("Net Balance", net_balance(listed_f.returned)),
                              Metric("Overdue Items", overdue_count(data_m, today))>>
                         \o (IF data_m = <<>>
                             THEN <<Ev("info", <<"No maintenance requests found">>, 0)>>
                             ELSE <<>>)
             /\ pc' = IF listed_p.raised \/ listed_m.raised \/ listed_f.raised
                      THEN "crashed" ELSE "idle"
    /\ UNCHANGED <<rvars, qvars, session_state, store, selected_properties, email_subject,
                   email_body, i, sent_count, failed_count, transport, maintenance_requests,
                   financial_transactions, email_templates, sequences>>

-----------------------------------------------------------------------------
(* Spec: the store and one user session *)

\* the store the session starts on: a property with a primary resident and
\* one with none (and no unit number and no fee)
Init ==
    /\ properties =
         { [id |-> 1, address |-> <<"12 Oak St">>, unit_number |-> Some(<<"2B">>),
            hoa_fees_monthly |-> Some(250)],
           [id |-> 2, address |-> <<"9 Elm Rd">>, unit_number |-> NoneStr,
            hoa_fees_monthly |-> NoneInt] }
    /\ residents =
         { [id |-> 1, property_id |-> 1, first_name |-> <<"Jane">>, last_name |-> <<"Doe">>,
            email |-> Some(<<"jane@example.org">>), is_primary_contact |-> TRUE] }
    /\ next_property_id = 3
    /\ next_resident_id = 2
    /\ maintenance_requests =
         { [id |-> 1, property_id |-> 1, title |-> <<"Leak">>, status |-> "Open",
            created_date |-> 1, completed_date |-> NoneInt, expected_completion |-> Some(1)],
           [id |-> 2, property_id |-> 2, title |-> <<"Gate">>, status |-> "Cancelled",
            created_date |-> 2, completed_date |-> NoneInt, expected_completion |-> Some(3)] }
    /\ financial_transactions =
         { [id |-> 1, property_id |-> 1, transaction_type |-> "Assessment",
            amount |-> 250, due_date |-> Some(2)],
           [id |-> 2, property_id |-> 2, transaction_type |-> "Payment",
            amount |-> -95, due_date |-> NoneInt] }
    /\ email_templates =
         { [id |-> 1, template_name |-> <<"Monthly">>, template_type |-> NoneStr,
            is_active |-> TRUE, subject_line |-> <<"Monthly HOA Statement">>,
            body_template |-> ExampleTemplate],
           [id |-> 2, template_name |-> <<"Notice">>, template_type |-> Some(<<"Reminder">>),
            is_active |-> FALSE, subject_line |-> <<"Notice">>,
            body_template |-> <<"Dear Resident">>] }
    /\ next_request_id = 3
    /\ next_transaction_id = 3
    /\ next_template_id = 3
    /\ widgets = NoForm
    /\ requests_data = <<>>
    /\ SessionIdle
    /\ NewSession
    /\ QueryIdle
    /\ template_text = <<>>
    /\ property_row = NoneStr
    /\ maintenance_data = NoneDict
    /\ financial_data = NoneDict
    /\ parsed = <<>>
    /\ rpc = "input"

Next ==
    \/ AddProperty
    \/ UseTemplate
    \/ SendEmailsClick
    \/ ProcessRecipient
    \/ SendReturn
    \/ Summary
    \/ Rerun

Spec == Init /\ [][Next]_vars

\* the tabs that delete a record and the tab that edits a maintenance request
CrudNext ==
    \/ DeleteProperty
    \/ DeleteRequest
    \/ DeleteTemplate
    \/ EditRequest

CrudSpec == Init /\ [][CrudNext]_vars

\* the Edit Property tab used again and again on the properties of the store
PropertyNext == EditProperty

PropertySpec == Init /\ [][PropertyNext]_vars

\* requests are submitted and the dashboard is looked at
DashboardNext ==
    \/ NewRequest
    \/ ShowDashboard

DashboardSpec == Init /\ [][DashboardNext]_vars

\* templates are created, edited, activated, deactivated, deleted and loaded
\* into the send form
TemplateNext ==
    \/ AddTemplate
    \/ EditTemplate
    \/ ToggleTemplate
    \/ DeleteTemplate
    \/ UseTemplate

TemplateSpec == Init /\ [][TemplateNext]_vars

\* calls of execute_query, one after the other
QueryNext ==
    \/ Call
    \/ Connect
    \/ Cursor
    \/ Execute
    \/ Fetchall
    \/ Commit
    \/ Except
    \/ Finally

QuerySpec == Init /\ [][QueryNext]_vars

\* the Financial Management page
FinancialNext ==
    \/ ViewTransactions
    \/ AddTransaction

FinancialSpec == Init /\ [][FinancialNext]_vars

\* A handler that has started runs on: the script run is one thread that
\* nothing suspends, and send_email returns.
FairSpec == Spec /\ WF_vars(ProcessRecipient) /\ WF_vars(SendReturn) /\ WF_vars(Summary)

-----------------------------------------------------------------------------
(* Notions the properties are stated with *)

\* pat occurs in s
Occurs(s, pat) ==
    \E k \in 1..(Len(s) - Len(pat) + 1) : SubSeq(s, k, k + Len(pat) - 1) = pat

\* s holds no brace
Plain(s) == \A k \in 1..Len(s) : s[k] \notin {"{{", "}}"}

\* every brace of t belongs to one whole "{{name}}": placeholders are not nested
Balanced(t) ==
    /\ \A k \in 1..Len(t) : t[k] = "{{" =>
          k + 2 <= Len(t) /\ t[k + 1] \notin {"{{", "}}"} /\ t[k + 2] = "}}"
    /\ \A k \in 1..Len(t) : t[k] = "}}" => k >= 3 /\ t[k - 2] = "{{"

\* t with every "{{name}}", name in the domain of map, replaced by map[name],
\* in one pass from the left; what is put in is not looked at again
RECURSIVE Subst(_, _)
Subst(t, map) ==
    IF t = <<>> THEN <<>>
    ELSE IF Len(t) >= 3 /\ t[1] = "{{" /\ t[3] = "}}" /\ t[2] \in DOMAIN map
         THEN map[t[2]] \o Subst(SubSeq(t, 4, Len(t)), map)
         ELSE <<Head(t)>> \o Subst(Tail(t), map)

\* the names of the vocabulary that t uses as placeholders
Used(t) == { n \in Vocabulary : Occurs(t, Placeholder(n)) }

\* s without the blanks at its ends
Trimmed(s) ==
    LET inked == { k \in 1..Len(s) : s[k] # " " }
    IN  IF inked = {} THEN <<>>
        ELSE SubSeq(s, CHOOSE lo \in inked : \A k \in inked : lo <= k,
                       CHOOSE hi \in inked : \A k \in inked : k <= hi)

\* the fixed defaults of section 4.1
FixedDefaults ==
    "current_balance" :> <<"0.00">> @@ "due_date" :> <<"End of Month">>
        @@ "request_title" :> <<>> @@ "status" :> <<>> @@ "notes" :> <<>>

\* the key of the context dict that carries a placeholder's value
KeyOf ==
    "current_balance" :> "balance" @@ "due_date" :> "due_date"
        @@ "request_title" :> "title" @@ "status" :> "status" @@ "notes" :> "notes"

\* what the contexts supply, by placeholder name
Supplied(maint, fin) ==
    [n \in { x \in {"current_balance", "due_date"} :
                Truthy(fin) /\ KeyOf[x] \in DOMAIN fin.val } |-> fin.val[KeyOf[n]]]
    @@ [n \in { x \in {"request_title", "status", "notes"} :
                Truthy(maint) /\ KeyOf[x] \in DOMAIN maint.val } |-> maint.val[KeyOf[n]]]

\* a dict that is given but lacks a key of the financial context
Unsupplied(fin) ==
    IF Truthy(fin)
    THEN "current_balance" :> <<"0">> @@ "due_date" :> <<"TBD">>
    ELSE <<>>

\* what a property record supplies
PropertyValues(row) ==
    LET r == row.val
        unit == IF r[2].isNone THEN <<>> ELSE r[2].val
    IN  "property_address" :> Trimmed(r[1] \o <<" ">> \o unit)
        @@ "resident_name" :> (IF r[4].isNone \/ r[4].val = <<>> THEN <<"Resident">>
                               ELSE r[4].val)
        @@ "monthly_fee" :> (IF r[3].isNone THEN <<"0">> ELSE <<ToString(r[3].val)>>)

\* no field of the record holds a brace
PlainRow(row) ==
    /\ Plain(row.val[1])
    /\ row.val[2].isNone \/ Plain(row.val[2].val)
    /\ row.val[4].isNone \/ Plain(row.val[4].val)

-----------------------------------------------------------------------------
(* Properties of the batch dispatcher (Spec, FairSpec) *)

\* the row the dispatcher's data holds first under a label
FirstRow(label) ==
    LET hits == { k \in 1..Len(properties_data) :
                    display_label(properties_data[k]) = label }
    IN  properties_data[CHOOSE k \in hits : \A h \in hits : k <= h]

\* the property selected at position p (from 0) has an email on file: its
\* email is neither absent nor empty nor blank
OnFile(p) ==
    LET email == FirstRow(selected_properties[p + 1])[5]
    IN  ~email.isNone /\ \E k \in 1..Len(email.val) : email.val[k] # " "

Calls(result) == { k \in 1..Len(transport) : transport[k].result = result }
\* the statements ex holds: statement q with answer o
Executes(ex, q, o) == \E k \in 1..Len(ex) : ex[k] = Stmt(q, o)
Shown(kind, text, n) == \E k \in 1..Len(log) : log[k] = Ev(kind, text, n)

\* C1: a batch that has started reaches the end of the selected list whatever
\* happens to each recipient (no email, send accepted, send failed): every
\* running batch leads to the summary with all recipients processed.
C1_BatchRunsToEnd ==
    (pc \in {"loop", "sending"}) ~> (pc = "done" /\ i = Len(selected_properties))

\* a batch is over in which a send failed and a later recipient was sent to
C1_Witness ==
    /\ pc = "done"
    /\ i = Len(selected_properties)
    /\ \E a, b \in 1..Len(transport) :
          a < b /\ transport[a].result = "error" /\ transport[b].result = "ok"

\* C2: when a batch over n recipients is over, sent counts the recipients with
\* an email on file whose send was accepted, failed counts those with no
\* email on file plus those whose send failed, and sent + failed = n.
C2_TallyIsExact ==
    pc = "done" =>
        LET n == Len(selected_properties)
        IN  /\ sent_count = Cardinality({ k \in Calls("ok") : OnFile(transport[k].i) })
            /\ failed_count = Cardinality({ p \in 0..(n - 1) : ~OnFile(p) })
                                + Cardinality(Calls("error"))
            /\ sent_count + failed_count = n

\* three recipients, the second with no email, both sends accepted: 2 and 1
C2_Witness ==
    /\ pc = "done"
    /\ Len(selected_properties) = 3
    /\ OnFile(0) /\ ~OnFile(1) /\ OnFile(2)
    /\ Calls("ok") = {1, 2}
    /\ sent_count = 2
    /\ failed_count = 1
\* what section 4.1 makes of a template for a property record with no
\* maintenance and no financial context
RenderedFor(template, row) == Subst(template, PropertyValues(Some(row)) @@ FixedDefaults)

\* C3: a selected recipient with no email on file (absent, empty or blank)
\* gets no send call, adds exactly one to failed, and a warning naming it is
\* shown; a recipient with an email gets exactly one send call, to its own
\* address, with subject and body rendered from its own record, and the
\* tally moves only when that call has returned.
C3_NoEmailNoSend ==
    [][ /\ (pc = "loop" /\ i < Len(selected_properties)) =>
             LET label == selected_properties[i + 1]
                 row == FirstRow(label)
             IN  IF OnFile(i)
                 THEN /\ transport' = Append(transport,
                             [i |-> i, to |-> row[5].val,
                              subject |-> RenderedFor(email_subject, row),
                              body |-> RenderedFor(email_body, row),
                              result |-> "pending"])
                      /\ sent_count' = sent_count
                      /\ failed_count' = failed_count
                      /\ \A k \in 1..Len(log') : log'[k] # Ev("warning", label, i)
                 ELSE /\ transport' = transport
                      /\ failed_count' = failed_count + 1
                      /\ sent_count' = sent_count
                      /\ Cardinality({ k \in 1..Len(log') :
                                          log'[k] = Ev("warning", label, i) }) = 1
                      /\ i' = i + 1
        /\ pc = "sending" =>
             /\ Len(transport') = Len(transport)
             /\ sent_count' + failed_count' = sent_count + failed_count + 1
             /\ i' = i + 1 ]_vars

\* a batch is over in which a recipient with a blank email was warned about
\* and another recipient was sent to
C3_Witness ==
    /\ pc = "done"
    /\ transport # <<>>
    /\ \E p \in 0..(Len(selected_properties) - 1) :
          /\ FirstRow(selected_properties[p + 1])[5] = Some(<<" ">>)
          /\ Shown("warning", selected_properties[p + 1], p)

\* C4: recipients are processed one at a time in the order of the selection:
\* at most one send call is pending, it is the latest one and the loop waits
\* on it; calls are made in increasing position of the selection, each to
\* the recipient at its position, and the loop moves past a position only
\* when its call has returned.
C4_OneAtATimeInOrder ==
    /\ Cardinality(Calls("pending")) <= 1
    /\ (Calls("pending") # {}) <=> (pc = "sending")
    /\ \A k \in Calls("pending") : k = Len(transport) /\ transport[k].i = i
    /\ \A a, b \in 1..Len(transport) : a < b => transport[a].i < transport[b].i
    /\ \A k \in 1..Len(transport) :
          /\ transport[k].i < Len(selected_properties)
          /\ transport[k].to = FirstRow(selected_properties[transport[k].i + 1])[5].val
          /\ transport[k].result # "pending" => transport[k].i < i

\* the second send of a batch is pending after the first has returned
C4_Witness ==
    /\ pc = "sending"
    /\ Len(transport) = 2
    /\ transport[1].result # "pending"
    /\ transport[1].to # transport[2].to

\* C5: nothing is retried: in one batch no position of the selection gets a
\* second send call, and in one form submission no SQL statement (the
\* property INSERT of Add Property included) is executed a second time.
C5_NoRetry ==
    /\ \A a, b \in 1..Len(transport) : a # b => transport[a].i # transport[b].i
    /\ \A a, b \in 1..Len(executed) : a # b => executed[a].query # executed[b].query

\* the property INSERT of Add Property has failed, and the submission is over
C5_Witness ==
    /\ executed = <<Stmt("INSERT properties", "error")>>
    /\ log = <<Ev("error", <<"Database error">>, 0)>>
    /\ pc = "idle"

Successes == { k \in 1..Len(log) : log[k].kind = "success" }
Failures ==
    { k \in 1..Len(log) : log[k].kind = "error" /\ log[k].text = <<"Failed to send emails">> }

\* C6 as stated: after every batch both counts are reported, a count of 0
\* included.
C6_BothCountsReported ==
    pc = "done" =>
        /\ \E k \in Successes : log[k].n = sent_count
        /\ \E k \in Failures : log[k].n = failed_count

\* C6 as amended: after every batch the sent count is reported exactly when it
\* is not 0 and the failed count exactly when it is not 0, each once and
\* with its value; at least one of the two is reported.
C6_NonzeroCountsReported ==
    pc = "done" =>
        /\ Cardinality(Successes) = (IF sent_count > 0 THEN 1 ELSE 0)
        /\ Cardinality(Failures) = (IF failed_count > 0 THEN 1 ELSE 0)
        /\ \A k \in Successes : log[k].n = sent_count
        /\ \A k \in Failures : log[k].n = failed_count
        /\ Successes \cup Failures # {}

\* a batch is over in which nothing was sent
C6_Witness ==
    /\ pc = "done"
    /\ sent_count = 0
    /\ failed_count = Len(selected_properties)
    /\ Successes = {}
    /\ Calls("error") # {}

\* the row at position j of the dispatcher's list comes after a row with the
\* same label
Shadowed(j) ==
    \E h \in 1..(j - 1) :
        display_label(properties_data[h]) = display_label(properties_data[j])

\* the emails of the rows that are the first with their label
FirstEmails ==
    { properties_data[j][5] : j \in { h \in 1..Len(properties_data) : ~Shadowed(h) } }

\* C26: in a batch every send call made for a label goes to the email of the
\* first row of the list with that label and is rendered from that row; a
\* row that comes after a row with the same label is never the one used:
\* unless its email is that of a first row, no call goes to it, however
\* often and through whichever option its label was selected.
C26_FirstRowOfLabelOnly ==
    pc \in {"loop", "sending", "done"} =>
        /\ \A k \in 1..Len(transport) :
              LET row == FirstRow(selected_properties[transport[k].i + 1])
              IN  /\ transport[k].to = row[5].val
                  /\ transport[k].subject = RenderedFor(email_subject, row)
                  /\ transport[k].body = RenderedFor(email_body, row)
        /\ \A j \in 1..Len(properties_data) :
              (Shadowed(j) /\ properties_data[j][5] \notin FirstEmails) =>
                  \A k \in 1..Len(transport) :
                      Some(transport[k].to) # properties_data[j][5]

\* a batch is over in which the label of two rows was selected twice; the
\* second of the rows has an email on file and no call went to it
C26_Witness ==
    /\ pc = "done"
    /\ \E j \in 1..Len(properties_data) :
          /\ Shadowed(j)
          /\ has_email(properties_data[j][5])
          /\ properties_data[j][5] \notin FirstEmails
          /\ Cardinality({ p \in 1..Len(selected_properties) :
                             selected_properties[p] = display_label(properties_data[j]) }) = 2
          /\ \A k \in 1..Len(transport) : Some(transport[k].to) # properties_data[j][5]

\* C23: Add Property is not atomic: when the INSERT of the resident fails,
\* the INSERT of the property has been executed and committed before it, and
\* the run leaves the new property in the store, with no resident row and so
\* no primary resident.
C23_AddPropertyNotAtomic ==
    [][ Executes(executed', "INSERT residents", "error") =>
          /\ \E a, b \in 1..Len(executed') :
                /\ a < b
                /\ executed'[a] = Stmt("INSERT properties", "ok")
                /\ executed'[b] = Stmt("INSERT residents", "error")
          /\ \E p \in properties' :
                /\ p.id = next_property_id
                /\ properties' = properties \cup {p}
                /\ p \notin properties
                /\ \A r \in residents' : r.property_id # p.id
          /\ residents' = residents ]_vars

\* a property has been added whose resident INSERT failed: it is in the
\* store and has no primary resident
C23_Witness ==
    /\ executed = <<Stmt("INSERT properties", "ok"), Stmt("INSERT residents", "error")>>
    /\ \E p \in properties :
          /\ p.id = next_property_id - 1
          /\ p.address = <<"5 Ash Ct">>
          /\ PrimaryResidents(p) = {}

\* C27: a run of Add Property shows the success message exactly when the
\* INSERT of the property has returned an id, whatever the INSERT of the
\* resident has returned: when that one has failed, the run shows its
\* "Database error" and then the success message.
C27_SuccessWhateverTheResident ==
    [][ (executed' # <<>> /\ executed'[1].query = "INSERT properties") =>
          LET success == Ev("success", <<"Property added successfully!">>, 0)
              succeeded == \E k \in 1..Len(log') : log'[k] = success
          IN  /\ succeeded <=> Executes(executed', "INSERT properties", "ok")
              /\ Executes(executed', "INSERT residents", "error") =>
                    log' = <<Ev("error", <<"Database error">>, 0), success>> ]_vars

\* the resident INSERT has failed and the run has ended in the success message
C27_Witness ==
    /\ Executes(executed, "INSERT residents", "error")
    /\ log = <<Ev("error", <<"Database error">>, 0),
               Ev("success", <<"Property added successfully!">>, 0)>>
    /\ pc = "idle"

-----------------------------------------------------------------------------
(* Properties of parse_email_template (RenderSpec) *)

Rendered == rpc = "rendered"

\* the template after the substitution of what the contexts supply
AfterContexts ==
    maintenance_block(
        financial_block(property_block(template_text, property_row), financial_data),
        maintenance_data)

\* C7 as stated: whatever the template and the contexts, the output holds no
\* placeholder of the vocabulary.
C7_NoPlaceholderLeft ==
    Rendered => \A n \in Vocabulary : ~Occurs(parsed, Placeholder(n))

\* C8: with no maintenance and no financial context every {{current_balance}}
\* becomes "0.00", every {{due_date}} "End of Month" and every
\* {{request_title}}, {{status}} and {{notes}} the empty string; and whatever
\* the contexts, each of these that the substitution of the contexts has left
\* in place gets its default.  (Stated for text whose placeholders are not
\* nested.)
C8_DefaultsExact ==
    Rendered =>
        /\ (~Truthy(property_row) /\ ~Truthy(maintenance_data) /\ ~Truthy(financial_data)
               /\ Balanced(template_text))
              => parsed = Subst(template_text, FixedDefaults)
        /\ Balanced(AfterContexts) => parsed = Subst(AfterContexts, FixedDefaults)

\* the template that uses every placeholder, rendered with no context
C8_Witness ==
    /\ Rendered
    /\ template_text = FullTemplate
    /\ property_row = NoneStr /\ maintenance_data = NoneDict /\ financial_data = NoneDict
    /\ Occurs(parsed, <<"0.00", "|", "End of Month", "|", "|", "|", "|">>)

\* a placeholder whose value a context supplies is there for the defaults
\* of lines 132-136 to replace
LeftForDefault(n) == Occurs(AfterContexts, Placeholder(n))

C10_PropertyValuesAnyRecord ==
    (/\ Rendered
     /\ Truthy(property_row)
     /\ ~Truthy(financial_data)
     /\ Used(template_text) \subseteq
           {"resident_name", "property_address", "monthly_fee", "current_balance"})
    => parsed = Subst(template_text,
                      PropertyValues(property_row) @@ ("current_balance" :> <<"0.00">>))

\* C10, amended: with a property record that holds no placeholder text and
\* no financial context, {{resident_name}} becomes the primary contact name
\* ("Resident" when there is none), {{property_address}} the address and
\* unit joined by a blank and trimmed, {{monthly_fee}} the fee (0 when there
\* is none) and {{current_balance}} "0.00"; "Hi {{resident_name}}, balance
\* {{current_balance}}" with contact "Jane Doe" gives "Hi Jane Doe, balance
\* 0.00".  (Stated for templates that use these four placeholders.)
C10_PropertyValues ==
    (/\ Rendered
     /\ Truthy(property_row)
     /\ ~Truthy(financial_data)
     /\ PlainRow(property_row)
     /\ Used(template_text) \subseteq
           {"resident_name", "property_address", "monthly_fee", "current_balance"})
    => /\ parsed = Subst(template_text,
                         PropertyValues(property_row) @@ ("current_balance" :> <<"0.00">>))
       /\ (template_text = ExampleTemplate /\ property_row.val[4] = Some(<<"Jane Doe">>))
             => parsed = <<"Hi ", "Jane Doe", ", balance ", "0.00">>

\* the example, and a record with no contact, no unit and no fee
C10_Witness ==
    /\ Rendered
    /\ template_text = ExampleTemplate
    /\ Truthy(property_row)
    /\ property_row.val[4] = Some(<<"Jane Doe">>)
    /\ ~Truthy(financial_data)
    /\ parsed = <<"Hi ", "Jane Doe", ", balance ", "0.00">>

\* the parts of a template outside its recognized placeholders, in order:
\* t is x0 {{n1}} x1 ... {{nk}} xk with every ni in the vocabulary and no
\* recognized placeholder in any xi
RECURSIVE Split(_)
Split(t) ==
    IF t = <<>> THEN << <<>> >>
    ELSE IF Len(t) >= 3 /\ t[1] = "{{" /\ t[3] = "}}" /\ t[2] \in Vocabulary
         THEN << <<>> >> \o Split(SubSeq(t, 4, Len(t)))
         ELSE LET r == Split(Tail(t))
              IN  << <<Head(t)>> \o r[1] >> \o Tail(r)

\* out is x0 v1 x1 ... vk xk for some strings v1 .. vk
RECURSIVE Fits(_, _)
Fits(segs, out) ==
    LET x == segs[1]
    IN  /\ Len(out) >= Len(x)
        /\ SubSeq(out, 1, Len(x)) = x
        /\ IF Len(segs) = 1 THEN Len(out) = Len(x)
           ELSE \E k \in Len(x)..Len(out) : Fits(Tail(segs), SubSeq(out, k + 1, Len(out)))

\* C11 as stated: whatever the contexts, the output is the template with
\* only its recognized placeholders replaced: every {{name}} with a name
\* outside the vocabulary and all other text outside the recognized
\* placeholders is in the output as it is in the template, in order.
C11_OutsideTextUnchanged ==
    Rendered => Fits(Split(template_text), parsed)

\* C12: a string that holds no placeholder of the vocabulary (the empty
\* string included) is returned unchanged, whatever the contexts.
C12_ResolvedTextUnchanged ==
    (Rendered /\ Used(template_text) = {}) => parsed = template_text

\* a text with an unknown placeholder and the bare word status, rendered with
\* a property record, a financial and a maintenance context
C12_Witness ==
    /\ Rendered
    /\ template_text = Placeholder("phone") \o <<"status">>
    /\ Truthy(property_row) /\ Truthy(financial_data) /\ Truthy(maintenance_data)
    /\ parsed = <<"{{", "phone", "}}", "status">>

\* the placeholders that the steps after line 112 handle
LaterNames == Vocabulary \ {"property_address", "resident_name"}

\* what the steps after line 112 put in the place of a placeholder
LaterValues(row, maint, fin) ==
    Supplied(maint, fin) @@ Unsupplied(fin) @@ FixedDefaults
        @@ ("monthly_fee" :> PropertyValues(row)["monthly_fee"])

\* C25: a contact name that is the text of a placeholder handled by a later
\* step ("{{due_date}}", "{{current_balance}}") is itself replaced in the same
\* call: {{resident_name}} ends as the value of that later placeholder, the
\* output does not hold the contact name, and it is not the template with
\* each of its placeholders replaced once.  (Stated for templates whose
\* placeholders are not nested.)
C25_InsertedValueResubstituted ==
    (/\ Rendered
     /\ Truthy(property_row)
     /\ Balanced(template_text)
     /\ \E n \in LaterNames : property_row.val[4] = Some(Placeholder(n)))
    => LET contact == property_row.val[4].val
           later == LaterValues(property_row, maintenance_data, financial_data)
           once == Subst(template_text, PropertyValues(property_row) @@ later)
       IN  /\ parsed = Subst(template_text,
                             ("resident_name" :> later[contact[2]])
                               @@ PropertyValues(property_row) @@ later)
           /\ ~Occurs(parsed, contact)
           /\ Occurs(template_text, Placeholder("resident_name")) => parsed # once

\* "Hi {{resident_name}}, balance {{current_balance}}" for the contact
\* "{{due_date}}": the greeting names "End of Month"
C25_Witness ==
    /\ Rendered
    /\ template_text = ExampleTemplate
    /\ Truthy(property_row)
    /\ property_row.val[4] = Some(Placeholder("due_date"))
    /\ financial_data = NoneDict
    /\ parsed = <<"Hi ", "End of Month", ", balance ", "0.00">>

\* what goes in the place of a placeholder of the financial context: the
\* value supplied, the fallback of lines 117-118, or the fixed default
FinancialValue(name, maint, fin) ==
    (Supplied(maint, fin) @@ Unsupplied(fin) @@ FixedDefaults)[name]

\* C24: there is a template and a context that supplies an empty string for
\* which the output shows the default: in "{{{{due_date}}due_date}}" (and the
\* same with current_balance) the removal of the inner placeholder leaves
\* "{{due_date}}", which the unconditional defaults of lines 132-133 replace,
\* so the output is "End of Month" ("0.00"); with any other value v in the
\* place of the inner placeholder the output is "{{" v "due_date}}".
C24_DefaultOverSuppliedEmpty ==
    Rendered =>
        \A n \in {"current_balance", "due_date"} :
            template_text = Nested(n) =>
                LET v == FinancialValue(n, maintenance_data, financial_data)
                IN  parsed = IF v = <<>> THEN FixedDefaults[n]
                             ELSE <<"{{">> \o v \o <<n, "}}">>

\* the financial context supplies the empty string for due_date and the
\* output is "End of Month"
C24_Witness ==
    /\ Rendered
    /\ template_text = Nested("due_date")
    /\ financial_data = Some("due_date" :> <<>>)
    /\ parsed = <<"End of Month">>

-----------------------------------------------------------------------------
(* Properties of get_properties as the dispatcher reads it (Spec) *)

\* C19: the list that get_properties has returned to a running batch holds a
\* row for every property of the store and only rows of properties of the
\* store; the row of a property with no primary resident has None for the
\* contact name and for the email; nothing is raised; and a recipient whose
\* row is such a row, once processed, has got no send call and a warning.
C19_UnjoinedPropertyListed ==
    /\ pc # "crashed"
    /\ pc \in {"loop", "sending", "done"} =>
          /\ \A p \in properties :
                /\ \E k \in 1..Len(properties_data) : properties_data[k][0] = p.id
                /\ PrimaryResidents(p) = {} =>
                      \A k \in 1..Len(properties_data) :
                          properties_data[k][0] = p.id =>
                              /\ properties_data[k][4] = NoneStr
                              /\ properties_data[k][5] = NoneStr
          /\ \A k \in 1..Len(properties_data) :
                \E p \in properties : properties_data[k][0] = p.id
          /\ \A pos \in 0..(i - 1) :
                FirstRow(selected_properties[pos + 1])[5] = NoneStr =>
                    /\ \A k \in 1..Len(transport) : transport[k].i # pos
                    /\ Shown("warning", selected_properties[pos + 1], pos)

\* a batch over the property with no primary resident alone is over: no send
\* call was made and one failure is counted
C19_Witness ==
    /\ pc = "done"
    /\ Len(selected_properties) = 1
    /\ FirstRow(selected_properties[1])[4] = NoneStr
    /\ FirstRow(selected_properties[1])[5] = NoneStr
    /\ \E p \in properties :
          p.id = FirstRow(selected_properties[1])[0] /\ PrimaryResidents(p) = {}
    /\ transport = <<>>
    /\ failed_count = 1
    /\ Shown("warning", selected_properties[1], 0)

-----------------------------------------------------------------------------
(* Properties of the CRUD tabs (CrudSpec) *)

DeleteOps == {"Delete Property", "Delete Request", "Delete Template"}

\* the DELETE statement of a delete tab
DeleteStmt ==
    "Delete Property" :> "DELETE properties"
      @@ "Delete Request" :> "DELETE maintenance_requests"
      @@ "Delete Template" :> "DELETE email_templates"

\* the ids of the rows of the table a delete tab deletes from
IdsOf(op, props, requests, templates) ==
    CASE op = "Delete Property" -> { p.id : p \in props }
      [] op = "Delete Request" -> { mr.id : mr \in requests }
      [] op = "Delete Template" -> { t.id : t \in templates }

tables == <<properties, residents, maintenance_requests, financial_transactions,
            email_templates>>

\* C14: in every run of a delete tab, the DELETE statement is executed only
\* when a record is selected and what is typed is, token for token, the
\* phrase asked for that record, which ends with the record's id; when what
\* is typed is anything else no statement is executed and no table changes;
\* and no row with another id leaves the table.
C14_DeleteOnlyOnExactPhrase ==
    [][ widgets'.op \in DeleteOps =>
          LET op == widgets'.op
              deleting == \E o \in DbOutcomes : Executes(executed', DeleteStmt[op], o)
              exact == /\ widgets'.prompt # <<>>
                       /\ widgets'.confirm_text = widgets'.prompt
                       /\ widgets'.prompt[1] = "DELETE"
                       /\ widgets'.prompt[Len(widgets'.prompt)] = ToString(widgets'.id)
          IN  /\ deleting =>
                   /\ exact
                   /\ widgets'.id \in IdsOf(op, properties, maintenance_requests,
                                            email_templates)
              /\ ~exact => ~deleting /\ tables' = tables
              /\ IdsOf(op, properties, maintenance_requests, email_templates)
                     \ IdsOf(op, properties', maintenance_requests', email_templates')
                   \subseteq {widgets'.id} ]_vars

\* property 1 has been deleted behind "DELETE PROPERTY 1"
C14_Witness ==
    /\ widgets.op = "Delete Property"
    /\ widgets.confirm_text = <<"DELETE", " ", "PROPERTY", " ", "1">>
    /\ Executes(executed, "DELETE properties", "ok")
    /\ \A p \in properties : p.id # 1

\* C15 as stated: the phrase every delete tab asks for is "DELETE", the name
\* of the entity and the id of the record, separated by blanks.
C15_PhraseNamesEntity ==
    (widgets.op \in DeleteOps /\ widgets.prompt # <<>>) =>
        /\ Len(widgets.prompt) = 5
        /\ widgets.prompt[1] = "DELETE"
        /\ widgets.prompt[2] = " "
        /\ widgets.prompt[3] \in
              (CASE widgets.op = "Delete Property" -> {"PROPERTY"}
                 [] widgets.op = "Delete Template" -> {"TEMPLATE"}
                 [] widgets.op = "Delete Request" -> {"REQUEST", "MAINTENANCE_REQUEST"})
        /\ widgets.prompt[4] = " "
        /\ widgets.prompt[5] = ToString(widgets.id)

\* C16: a Delete Property whose DELETE the store has executed leaves no row
\* of properties with the id of the property and no row of residents,
\* maintenance_requests or financial_transactions that references it, and
\* leaves every other row of every table as it was.
C16_DeletePropertyCascades ==
    [][ (widgets'.op = "Delete Property" /\ Executes(executed', "DELETE properties", "ok")) =>
          LET id == widgets'.id
          IN  /\ \E p \in properties : p.id = id
              /\ properties' = { p \in properties : p.id # id }
              /\ residents' = { r \in residents : r.property_id # id }
              /\ maintenance_requests' =
                    { mr \in maintenance_requests : mr.property_id # id }
              /\ financial_transactions' =
                    { ft \in financial_transactions : ft.property_id # id }
              /\ email_templates' = email_templates ]_vars

\* property 1 is gone with its resident, its request and its transaction;
\* property 2 is there with its request and its transaction
C16_Witness ==
    /\ widgets.op = "Delete Property"
    /\ widgets.id = 1
    /\ Executes(executed, "DELETE properties", "ok")
    /\ { p.id : p \in properties } = {2}
    /\ residents = {}
    /\ { mr.property_id : mr \in maintenance_requests } = {2}
    /\ financial_transactions =
          { [id |-> 2, property_id |-> 2, transaction_type |-> "Payment",
             amount |-> -95, due_date |-> NoneInt] }

\* C17 as stated: an Edit Request whose UPDATE the store has executed and
\* that leaves the request Completed leaves it with a completion timestamp,
\* the one it had if it had one; an edit to another status leaves the
\* timestamp as it was.
C17_CompletedSetsTimestamp ==
    [][ (widgets'.op = "Edit Request"
           /\ Executes(executed', "UPDATE maintenance_requests", "ok")) =>
          \A before \in maintenance_requests, after \in maintenance_requests' :
              (before.id = widgets'.id /\ after.id = widgets'.id) =>
                  IF after.status = "Completed" /\ before.completed_date.isNone
                  THEN ~after.completed_date.isNone
                  ELSE after.completed_date = before.completed_date ]_vars

\* an Edit Request that leaves request request_id with status s
EditTo(request_id, s) ==
    /\ EditRequest
    /\ widgets'.id = request_id
    /\ Executes(executed', "UPDATE maintenance_requests", "ok")
    /\ \E mr \in maintenance_requests' : mr.id = request_id /\ mr.status = s

\* C18: whatever the status of a request is, an edit can give it each of the
\* four statuses: from every state in which the page waits, for every request
\* and every status there is an Edit Request that leaves the request with
\* that status (so a Cancelled or Completed request can be Open again).
C18_AnyStatusToAny ==
    Ready => \A mr \in maintenance_requests : \A s \in Statuses : ENABLED EditTo(mr.id, s)

\* request 2, Cancelled at the start, has been edited to Open
C18_Witness ==
    /\ widgets.op = "Edit Request"
    /\ widgets.id = 2
    /\ widgets.new_status = "Open"
    /\ Executes(executed, "UPDATE maintenance_requests", "ok")
    /\ \E mr \in maintenance_requests : mr.id = 2 /\ mr.status = "Open"

-----------------------------------------------------------------------------
(* Properties of the Edit Property tab (PropertySpec) *)

\* C28: a run of Edit Property on a property that has no primary resident
\* executes no statement on residents and leaves the residents table as it
\* was, whatever contact is typed into the form, and shows the success
\* message exactly when the UPDATE of the property has been executed.
C28_NoResidentNoResidentWrite ==
    [][ (/\ widgets'.op = "Edit Property"
         /\ \E p \in properties : p.id = widgets'.id /\ PrimaryResidents(p) = {}) =>
          /\ residents' = residents
          /\ \A k \in 1..Len(executed') :
                executed'[k].query \notin {"UPDATE residents", "INSERT residents"}
          /\ Executes(executed', "UPDATE properties", "ok")
                <=> \E k \in 1..Len(log') :
                       log'[k] = Ev("success", <<"Property updated successfully!">>, 0) ]_vars

\* property 2, which has no resident, has been edited with the contact Ann
\* Ray typed in: its address is the new one, success is shown and it still
\* has no resident
C28_Witness ==
    /\ widgets.op = "Edit Property"
    /\ widgets.id = 2
    /\ Executes(executed, "UPDATE properties", "ok")
    /\ widgets.inputs.new_first_name = <<"Ann">>
    /\ widgets.inputs.new_email = <<"ann@example.org">>
    /\ \E p \in properties : p.id = 2 /\ p.address = <<"5 Ash Ct">>
    /\ \A r \in residents : r.property_id # 2 /\ r.first_name # <<"Ann">>
    /\ log = <<Ev("success", <<"Property updated successfully!">>, 0)>>

-----------------------------------------------------------------------------
(* Properties of the dashboard (DashboardSpec) *)

\* C29: whenever the dashboard has been run, the Overdue Items metric it
\* shows is 0 and every row that get_maintenance_requests has returned holds
\* None in position 9, whatever the store holds: an Open request whose
\* stored expected completion date is before today is not counted.
C29_OverdueAlwaysZero ==
    widgets.op = "Dashboard" =>
        /\ \A k \in 1..Len(requests_data) : requests_data[k][9] = NoneStr
        /\ \E k \in 1..Len(log) : log[k] = Metric("Overdue Items", 0)
        /\ \A k \in 1..Len(log) :
              (log[k].kind = "metric" /\ log[k].text = <<"Overdue Items">>) => log[k].n = 0

\* the dashboard has listed two Open requests whose stored expected
\* completion date is before today, counts them as open, and shows 0 overdue
C29_Witness ==
    /\ widgets.op = "Dashboard"
    /\ Cardinality({ mr \in maintenance_requests :
                       /\ mr.status = "Open"
                       /\ mr.expected_completion.val < widgets.inputs.today
                       /\ \E k \in 1..Len(requests_data) : requests_data[k][0] = mr.id }) = 2
    /\ \E k \in 1..Len(log) : log[k] = Metric("Open Maintenance", 2)
    /\ \E k \in 1..Len(log) : log[k] = Metric("Overdue Items", 0)

-----------------------------------------------------------------------------------------------------------------------------------------------------
(* Properties of the email templates (TemplateSpec) *)

\* the stored templates whose active flag is set
ActiveTemplates == { t \in email_templates : t.is_active }

\* C30: whatever templates were created, edited, activated, deactivated and
\* deleted before, a run of "Use Email Template" whose SELECT succeeds offers
\* the names of exactly the stored templates with is_active = true (and
\* offers nothing when the SELECT fails), and "Use This Template" loads the
\* subject and the body of a stored template that is active and has the
\* selected name; a run without that click leaves the send form as it was.
C30_OnlyActiveTemplatesOffered ==
    [][ widgets'.op = "Use Template" =>
          /\ email_templates' = email_templates
          /\ Executes(executed', "SELECT active email_templates", "ok")
                => widgets'.inputs.offered = { t.template_name : t \in ActiveTemplates }
          /\ ~Executes(executed', "SELECT active email_templates", "ok")
                => widgets'.inputs.offered = {}
          /\ widgets'.inputs.loaded
                => \E t \in ActiveTemplates :
                      /\ t.id = widgets'.id
                      /\ t.template_name = widgets'.inputs.selected
                      /\ session_state' = [email_subject |-> Some(t.subject_line),
                                           email_body |-> Some(t.body_template)]
          /\ ~widgets'.inputs.loaded => UNCHANGED session_state
      ]_vars

\* template 2, inactive at first, was activated and is loaded into the send
\* form, while template 1 was deactivated and is not offered
C30_Witness ==
    /\ widgets.op = "Use Template"
    /\ widgets.inputs.loaded
    /\ widgets.id = 2
    /\ widgets.inputs.offered = {<<"Notice">>}
    /\ session_state.email_subject = Some(<<"Notice">>)
    /\ \E t \in email_templates : t.id = 1 /\ ~t.is_active

-----------------------------------------------------------------------------
(* Properties of the entities (FinancialSpec) *)

\* every handler of the source that executes an INSERT, an UPDATE or a DELETE
Operations ==
    \/ AddProperty
    \/ EditProperty
    \/ DeleteProperty
    \/ NewRequest
    \/ EditRequest
    \/ DeleteRequest
    \/ AddTransaction
    \/ AddTemplate
    \/ EditTemplate
    \/ ToggleTemplate
    \/ DeleteTemplate

\* some operation leaves the property, resident, request, transaction or
\* template with this id changed, or leaves none with this id
PropertyUpdatable(p) ==
    ENABLED (Operations /\ \E x \in properties' : x.id = p.id /\ x # p)
PropertyDeletable(p) ==
    ENABLED (Operations /\ \A x \in properties' : x.id # p.id)
ResidentUpdatable(r) ==
    ENABLED (Operations /\ \E x \in residents' : x.id = r.id /\ x # r)
ResidentDeletable(r) ==
    ENABLED (Operations /\ \A x \in residents' : x.id # r.id)
RequestUpdatable(mr) ==
    ENABLED (Operations /\ \E x \in maintenance_requests' : x.id = mr.id /\ x # mr)
RequestDeletable(mr) ==
    ENABLED (Operations /\ \A x \in maintenance_requests' : x.id # mr.id)
TransactionUpdatable(ft) ==
    ENABLED (Operations /\ \E x \in financial_transactions' : x.id = ft.id /\ x # ft)
TransactionDeletable(ft) ==
    ENABLED (Operations /\ \A x \in financial_transactions' : x.id # ft.id)
TemplateUpdatable(t) ==
    ENABLED (Operations /\ \E x \in email_templates' : x.id = t.id /\ x # t)
TemplateDeletable(t) ==
    ENABLED (Operations /\ \A x \in email_templates' : x.id # t.id)

\* C21 as stated: between two runs, for every stored property, resident,
\* maintenance request, financial transaction and email template there is
\* an operation that updates the record and an operation that deletes it.
C21_EveryEntityUpdatedAndDeleted ==
    Ready =>
        /\ \A p \in properties : PropertyUpdatable(p) /\ PropertyDeletable(p)
        /\ \A r \in residents : ResidentUpdatable(r) /\ ResidentDeletable(r)
        /\ \A mr \in maintenance_requests : RequestUpdatable(mr) /\ RequestDeletable(mr)
        /\ \A ft \in financial_transactions :
              TransactionUpdatable(ft) /\ TransactionDeletable(ft)
        /\ \A t \in email_templates : TemplateUpdatable(t) /\ TemplateDeletable(t)

-----------------------------------------------------------------------------
(* Properties of execute_query (QuerySpec) *)

\* a call of execute_query has returned
Returned == qpc = "idle" /\ calls > 0

\* C22 as stated: every call that has returned has opened one connection,
\* has sent exactly one statement and has closed its cursor and its
\* connection, and no connection or transaction is open between two calls.
C22_OneConnectionOneStatement ==
    /\ Returned =>
          /\ connections = 1
          /\ statements = 1
          /\ cur = "closed"
          /\ conn = "closed"
    /\ qpc = "idle" => open_connections = 0 /\ transaction # "open"

\* C22, amended: a call opens at most one connection and sends at most one
\* statement: no connection when connecting fails, and no statement unless
\* the connection and the cursor were obtained.  A call that has returned
\* has closed the connection and the cursor it obtained, on every path; a
\* call that returns rows or a row count has opened one connection, sent one
\* statement and committed it.  No connection or transaction is open
\* between two calls, and no more than one is open within a call.
C22_OpenedIsClosedAtReturn ==
    /\ connections <= 1
    /\ statements <= 1
    /\ open_connections <= 1
    /\ statements = 1 => connections = 1
    /\ qpc = "idle" =>
          /\ open_connections = 0
          /\ conn # "open"
          /\ cur # "open"
          /\ transaction # "open"
    /\ Returned =>
          /\ conn = "closed" <=> connections = 1
          /\ cur = "closed" <=> statements = 1
          /\ query_result # "pending"
          /\ query_result # "None" =>
                /\ connections = 1
                /\ statements = 1
                /\ transaction = "committed"

\* a call has returned None after conn.cursor() failed: the connection it
\* opened is closed, and no statement was sent
C22_Witness ==
    /\ Returned
    /\ query_result = "None"
    /\ conn = "closed"
    /\ cur = "unbound"
    /\ connections = 1
    /\ statements = 0
    /\ open_connections = 0

-----
(* Properties of the CRUD tabs (CrudSpec), continued *)

\* the statements that change the store
Mutations ==
    {"DELETE properties", "DELETE maintenance_requests", "DELETE email_templates",
     "UPDATE maintenance_requests"}

\* C20: no run of a tab ends in an exception that execute_query let through;
\* every statement that failed is reported by one "Database error" message;
\* a run in which no statement that changes the store was executed
\* successfully leaves every table as it was; and a list reader whose SELECT
\* failed returns the empty list.
C20_StoreErrorsAreCaught ==
    [][ /\ pc' # "crashed"
        /\ Cardinality({ k \in 1..Len(log') : log'[k] = Ev("error", <<"Database error">>, 0) })
             = Cardinality({ k \in 1..Len(executed') : executed'[k].outcome = "error" })
        /\ (\A q \in Mutations : ~Executes(executed', q, "ok")) => tables' = tables
        /\ Executes(executed', "SELECT properties", "error") => properties_data' = <<>>
        /\ Executes(executed', "SELECT maintenance_requests", "error")
              => requests_data' = <<>> ]_vars

\* the DELETE of a property has failed: the error is shown, the run is over
\* and the property is in the store
C20_Witness ==
    /\ widgets.op = "Delete Property"
    /\ executed = <<Stmt("SELECT properties", "ok"), Stmt("DELETE properties", "error")>>
    /\ log = <<Ev("error", <<"Database error">>, 0)>>
    /\ pc = "idle"
    /\ \E p \in properties : p.id = widgets.id

====
